---------------------------- MODULE Spec2Model ----------------------------
(***************************************************************************)
(* Verification model of three pieces of libFirm:                          *)
(*   - the type/entity verifier (tr_verify, check_entity, check_type),     *)
(*   - the LCSSA loop unroller (unroll_loops and its helpers),             *)
(*   - the doubleword lowering pass (lower_dw_ops and its helpers).        *)
(* Each piece has its own initial condition, next-state relation and       *)
(* specification; the variables of the pieces that are not running keep    *)
(* their idle values.                                                      *)
(***************************************************************************)
EXTENDS Integers, Sequences, FiniteSets, TLC

VARIABLES
    scen,       \* which piece runs: "verify", "unroll", "lower", "sparc", ...
    pc,         \* position of the running piece
    vjob,       \* verifier: the call that is made (api and argument)
    vres,       \* verifier: its result [fine, warn] (warn = lines written)
    nodes,      \* the graph: node records by node index
    link,       \* the link field of every node (0 is NULL)
    outs,       \* the out edges as last computed: <<successor, position>>
    props,      \* the graph properties that are set
    reserved,   \* the resources of the graph that are reserved
    up,         \* loop unrolling: loop tree, dominators and pass locals;
                \* SPARC: schedule, stack layout and pass locals
    irp,        \* lowering: the program (graphs, types, modes, static maps)
    lenv        \* lowering: the environment of lower_dw_ops and its walker

varsV == <<vjob, vres>>

varsG == <<nodes, link, outs, props, reserved>>

varsL == <<irp, lenv>>

vars == <<scen, pc, vjob, vres, nodes, link, outs, props, reserved, up, irp,
          lenv>>

(***************************************************************************)
(* Small helpers on sequences.                                            *)
(***************************************************************************)
Range(s) == {s[i] : i \in DOMAIN s}

(***************************************************************************)
(*                     PART 1: the type/entity verifier                    *)
(*                                                                         *)
(* A check yields [fine, warn]: the boolean it returns and the number of   *)
(* 'Verify warning' lines it wrote (report_error calls).                   *)
(***************************************************************************)
VOk == [fine |-> TRUE, warn |-> 0]

\* report_error: one line on the warning channel.
report_error == 1

\* the lines two checks wrote, and the boolean of the first one only
VThen(a, b) == [fine |-> a.fine, warn |-> a.warn + b.warn]

\* fine &= b
VAnd(a, b) == [fine |-> a.fine /\ b.fine, warn |-> a.warn + b.warn]

\* if (cond) { report_error(...); fine = false; }
VFail(r, cond) ==
    IF cond THEN [fine |-> FALSE, warn |-> r.warn + report_error] ELSE r

\* Types: [code, mode, members, nsup, dims, elem]; mode "NULL" is no mode,
\* elem is <<>> or <<element type>>.  A member is
\* [isnull, owner_is_tp, overwrites, type] (type as <<>> or <<type>>).
MkType(code, mode, members, nsup, dims, elem) ==
    [code |-> code, mode |-> mode, members |-> members, nsup |-> nsup,
     dims |-> dims, elem |-> elem]

is_Class_type(tp)    == tp.code = "class"
is_Array_type(tp)    == tp.code = "array"
is_Method_type(tp)   == tp.code = "method"
is_compound_type(tp) == tp.code \in {"class", "struct", "union"}
get_type_mode(tp)    == tp.mode

check_class_member(tp, member) ==
    VFail(VOk, member.overwrites > tp.nsup)

RECURSIVE check_compound_members(_, _, _)
check_compound_members(tp, i, acc) ==
    IF i > Len(tp.members) THEN acc
    ELSE LET member == tp.members[i] IN
         IF member.isnull
         THEN check_compound_members(tp, i + 1, VFail(acc, TRUE))
         ELSE LET a1 == VFail(acc, ~member.owner_is_tp)
                  a2 == IF is_Class_type(tp)
                        THEN VAnd(a1, check_class_member(tp, member))
                        ELSE a1
              IN  check_compound_members(tp, i + 1, a2)

check_compound_type(tp) == check_compound_members(tp, 1, VOk)

RECURSIVE check_array_dims(_, _, _)
check_array_dims(tp, i, acc) ==
    IF i > Len(tp.dims) THEN acc
    ELSE check_array_dims(tp, i + 1,
             VFail(acc, ~tp.dims[i].lower /\ ~tp.dims[i].upper))

check_array_type(tp) == check_array_dims(tp, 1, VOk)

check_type_mode(tp) == VFail(VOk, get_type_mode(tp) = "NULL")

check_primitive_type(tp) == check_type_mode(tp)

check_pointer_type(tp) == check_type_mode(tp)

check_type(tp) ==
    CASE tp.code \in {"union", "struct", "class"} -> check_compound_type(tp)
      [] tp.code = "array"                        -> check_array_type(tp)
      [] tp.code = "primitive"                    -> check_primitive_type(tp)
      [] tp.code = "pointer"                      -> check_pointer_type(tp)
      [] OTHER                                    -> VOk

\* Initializers: [kind, mode, storage_ok, visited_ok, subs].
MkInit(kind, mode, storage_ok, visited_ok, subs) ==
    [kind |-> kind, mode |-> mode, storage_ok |-> storage_ok,
     visited_ok |-> visited_ok, subs |-> subs]

\* check_visited_flag reports by itself, node_is_in_irgs_storage does not.
constant_on_correct_irg(value) ==
    VFail([fine |-> value.storage_ok, warn |-> 0], ~value.visited_ok)

RECURSIVE check_initializer(_, _)
RECURSIVE check_sub_initializers(_, _, _, _)

\* the loops over the sub-initializers: the result of the nested call is
\* dropped, only the lines it wrote remain
check_sub_initializers(init, tp, i, acc) ==
    IF i > Len(init.subs) THEN acc
    ELSE IF is_Array_type(tp)
    THEN check_sub_initializers(init, tp, i + 1,
             VThen(acc, check_initializer(init.subs[i], tp.elem[1])))
    ELSE IF i > Len(tp.members) THEN acc
    ELSE check_sub_initializers(init, tp, i + 1,
             VThen(acc, check_initializer(init.subs[i],
                                          tp.members[i].type[1])))

check_initializer(init, tp) ==
    CASE init.kind = "NULL" -> VOk
      [] init.kind = "TARVAL" ->
            VFail(VOk, get_type_mode(tp) # init.mode)
      [] init.kind = "CONST" ->
            LET a1 == VFail(VOk, get_type_mode(tp) # init.mode)
                c  == constant_on_correct_irg(init)
                a2 == [fine |-> a1.fine, warn |-> a1.warn + c.warn]
            IN  VFail(a2, ~c.fine)
      [] init.kind = "COMPOUND" ->
            IF is_Array_type(tp)
            THEN check_sub_initializers(init, tp, 1, VOk)
            ELSE IF is_compound_type(tp)
            THEN check_sub_initializers(init, tp, 1,
                     VFail(VOk, Len(init.subs) > Len(tp.members)))
            ELSE VFail(VOk, TRUE)
      [] OTHER -> VFail(VOk, TRUE)

\* Entities: [kind, linkage, visibility, has_def, init, type, owner, irg,
\* impl, ld_ident, ld_name]; init is <<>> or <<initializer>>, owner is
\* [code, flag] with flag "segment", "frame" or "none", irg is "none", "ok"
\* or "other" (the graph's entity is another one), impl is "n/a" (not
\* peculiarity_existent), "ok" or "null", ld_ident is FALSE for NULL.
MkEntity(kind, linkage, vis, has_def, init, type, owner, irg, impl, id, nm) ==
    [kind |-> kind, linkage |-> linkage, visibility |-> vis,
     has_def |-> has_def, init |-> init, type |-> type, owner |-> owner,
     irg |-> irg, impl |-> impl, ld_ident |-> id, ld_name |-> nm]

check_external_linkage(entity, linkage) ==
    IF linkage \notin entity.linkage THEN VOk
    ELSE VFail(VFail(VOk, entity.visibility # "external"), ~entity.has_def)

is_data_type(tp) == tp.code # "code" /\ ~is_Method_type(tp)

is_method_entity(entity) == entity.kind = "METHOD"

is_segment_type(owner) == owner.flag = "segment"
is_frame_type(owner)   == owner.flag = "frame"

check_entity_kind(entity, acc) ==
    LET has_init == entity.init # <<>>
        type     == entity.type
        owner    == entity.owner
    IN
    CASE entity.kind = "ALIAS" ->
            VFail(VFail(acc, ~is_segment_type(owner)), has_init)
      [] entity.kind = "NORMAL" ->
            VFail(acc, ~is_data_type(type))
      [] entity.kind = "COMPOUND_MEMBER" ->
            VFail(VFail(acc, ~is_compound_type(owner)), has_init)
      [] entity.kind = "LABEL" ->
            VFail(VFail(acc, type.code # "code"), has_init)
      [] entity.kind = "METHOD" ->
            VFail(VFail(VFail(acc, ~is_Method_type(type)),
                        entity.irg = "other"),
                  entity.impl = "null")
      [] entity.kind = "PARAMETER" ->
            VFail(VFail(VFail(acc, ~is_frame_type(owner)),
                        ~is_data_type(type)),
                  has_init)
      [] OTHER -> acc

check_entity(entity) ==
    LET a0 == IF entity.init # <<>>
              THEN VAnd(VOk, check_initializer(entity.init[1], entity.type))
              ELSE VOk
        a1 == IF "NO_CODEGEN" \in entity.linkage
              THEN LET b == IF ~is_method_entity(entity) THEN VFail(a0, TRUE)
                            ELSE VFail(a0, entity.irg = "none")
                   IN  VFail(b, entity.visibility # "external")
              ELSE a0
        \* the three linkage checks: the returned boolean is not used
        a2 == VThen(a1, check_external_linkage(entity, "WEAK"))
        a3 == VThen(a2, check_external_linkage(entity, "GARBAGE_COLLECT"))
        a4 == VThen(a3, check_external_linkage(entity, "MERGE"))
    IN  check_entity_kind(entity, a4)

\* check_tore: a type or an entity met by the type walk
check_tore(tore) ==
    IF tore[1] = "type" THEN check_type(tore[2]) ELSE check_entity(tore[2])

RECURSIVE type_walk(_, _, _)
type_walk(tores, i, acc) ==
    IF i > Len(tores) THEN acc
    ELSE type_walk(tores, i + 1, VAnd(acc, check_tore(tores[i])))

\* A program is [tores, segs]: what the type walk meets, and the member
\* lists of the segment types by segment name.
SegmentNames == <<"GLOBAL", "THREAD_LOCAL", "CONSTRUCTORS", "DESTRUCTORS">>

RECURSIVE check_public_names(_, _, _)
check_public_names(members, e, acc) ==
    IF e > Len(members) THEN acc
    ELSE check_public_names(members, e + 1,
             VFail(acc, ~members[e].ld_ident
                        /\ members[e].visibility # "private"))

RECURSIVE check_segments(_, _, _)
check_segments(prog, s, acc) ==
    IF s > Len(SegmentNames) THEN acc
    ELSE check_segments(prog, s + 1,
             check_public_names(prog.segs[SegmentNames[s]], 1, acc))

RECURSIVE check_structors(_, _, _)
check_structors(members, i, acc) ==
    IF i > Len(members) THEN acc
    ELSE check_structors(members, i + 1,
             VFail(VFail(acc, "HIDDEN_USER" \notin members[i].linkage),
                   members[i].ld_name # ""))

RECURSIVE check_thread_locals(_, _, _)
check_thread_locals(members, i, acc) ==
    IF i > Len(members) THEN acc
    ELSE check_thread_locals(members, i + 1,
             VFail(VFail(acc, is_method_entity(members[i])),
                   "CONSTANT" \in members[i].linkage))

tr_verify(prog) ==
    LET a0 == type_walk(prog.tores, 1, VOk)
        a1 == check_segments(prog, 1, a0)
        a2 == check_structors(prog.segs["CONSTRUCTORS"], 1, a1)
        a3 == check_structors(prog.segs["DESTRUCTORS"], 1, a2)
    IN  check_thread_locals(prog.segs["THREAD_LOCAL"], 1, a3)

(***************************************************************************)
(* Inputs of the verifier: bounded families of types, initializers,        *)
(* entities and programs.                                                  *)
(***************************************************************************)
MaxMembers == 2
MaxDims == 2
MaxEntries == 2
MaxSegMembers == 1

SeqsUpTo(S, n) == UNION {[1..k -> S] : k \in 0..n}

T_int    == MkType("primitive", "Is", <<>>, 0, <<>>, <<>>)
T_nomode == MkType("primitive", "NULL", <<>>, 0, <<>>, <<>>)
T_ptr    == MkType("pointer", "P", <<>>, 0, <<>>, <<>>)
T_method == MkType("method", "P", <<>>, 0, <<>>, <<>>)
T_code   == MkType("code", "ANY", <<>>, 0, <<>>, <<>>)
T_array  == MkType("array", "NULL", <<>>, 0,
                   <<[lower |-> TRUE, upper |-> TRUE]>>, <<T_int>>)

MkMember(isnull, owner_is_tp, overwrites, type) ==
    [isnull |-> isnull, owner_is_tp |-> owner_is_tp,
     overwrites |-> overwrites, type |-> type]

Members ==
    {MkMember(FALSE, TRUE, 0, <<T_int>>),
     MkMember(FALSE, TRUE, 1, <<T_ptr>>),
     MkMember(FALSE, FALSE, 0, <<T_int>>),
     MkMember(TRUE, TRUE, 0, <<>>)}

Dims == [lower : BOOLEAN, upper : BOOLEAN]

CompoundTypes ==
    {MkType(c, "NULL", m, n, <<>>, <<>>) :
        c \in {"class", "struct", "union"},
        m \in SeqsUpTo(Members, MaxMembers), n \in 0..1}

ArrayTypes ==
    {MkType("array", "NULL", <<>>, 0, d, <<T_int>>) :
        d \in SeqsUpTo(Dims, MaxDims)}

VTypes ==
    CompoundTypes \cup ArrayTypes
        \cup {T_int, T_nomode, T_ptr, T_method, T_code,
              MkType("pointer", "NULL", <<>>, 0, <<>>, <<>>),
              MkType("unknown", "NULL", <<>>, 0, <<>>, <<>>)}

T_struct ==
    MkType("struct", "NULL",
           <<MkMember(FALSE, TRUE, 0, <<T_int>>),
             MkMember(FALSE, TRUE, 0, <<T_array>>)>>, 0, <<>>, <<>>)

InitLeaves ==
    {MkInit("NULL", "NULL", TRUE, TRUE, <<>>),
     MkInit("TARVAL", "Is", TRUE, TRUE, <<>>),
     MkInit("TARVAL", "Iu", TRUE, TRUE, <<>>),
     MkInit("CONST", "Is", TRUE, TRUE, <<>>),
     MkInit("CONST", "Is", FALSE, TRUE, <<>>),
     MkInit("CONST", "Is", TRUE, FALSE, <<>>),
     MkInit("INVALID", "NULL", TRUE, TRUE, <<>>)}

InitCompounds ==
    {MkInit("COMPOUND", "NULL", TRUE, TRUE, subs) :
        subs \in SeqsUpTo(InitLeaves, MaxEntries)}

InitNested ==
    {MkInit("COMPOUND", "NULL", TRUE, TRUE, <<i, c>>) :
        i \in {MkInit("TARVAL", "Is", TRUE, TRUE, <<>>)},
        c \in InitCompounds}

Initializers == InitLeaves \cup InitCompounds \cup InitNested

O_segment == [code |-> "class", flag |-> "segment"]
O_frame   == [code |-> "struct", flag |-> "frame"]
O_struct  == [code |-> "struct", flag |-> "none"]
O_array   == [code |-> "array", flag |-> "none"]

Owners == {O_segment, O_frame, O_struct, O_array}

Linkages ==
    {{}, {"WEAK"}, {"GARBAGE_COLLECT"}, {"MERGE"}, {"NO_CODEGEN"},
     {"WEAK", "NO_CODEGEN"}, {"HIDDEN_USER"}}

EntityKinds ==
    {"ALIAS", "NORMAL", "COMPOUND_MEMBER", "LABEL", "PARAMETER", "UNKNOWN"}

\* entities that are no methods: no graph; every linkage, visibility, owner
DataEntities ==
    {MkEntity(k, l, v, d, IF d THEN <<MkInit("TARVAL", "Is", TRUE, TRUE, <<>>)>>
                          ELSE <<>>,
              t, o, "none", "n/a", TRUE, "x") :
        k \in EntityKinds, l \in Linkages, v \in {"external", "local"},
        d \in BOOLEAN, t \in {T_int, T_method, T_code}, o \in Owners}

MethodEntities ==
    {MkEntity("METHOD", l, v, d, <<>>, t, O_segment, g, m, TRUE, "x") :
        l \in Linkages, v \in {"external", "local"}, d \in BOOLEAN,
        t \in {T_method, T_int}, g \in {"none", "ok", "other"},
        m \in {"n/a", "ok", "null"}}

\* normal entities with every initializer against every kind of type
InitEntities ==
    {MkEntity("NORMAL", {}, "external", TRUE, <<i>>, t, O_segment, "none",
              "n/a", TRUE, "x") :
        i \in Initializers, t \in {T_int, T_array, T_struct, T_ptr}}

VEntities == DataEntities \cup MethodEntities \cup InitEntities

\* members of the segment types
SegEntities ==
    {MkEntity(k, l, v, TRUE, <<>>, IF k = "METHOD" THEN T_method ELSE T_int,
              O_segment, "none", "n/a", id, n) :
        k \in {"NORMAL", "METHOD"},
        l \in {{}, {"HIDDEN_USER"}, {"CONSTANT"}, {"WEAK"}},
        v \in {"external", "private"}, id \in BOOLEAN, n \in {"", "x"}}

SegMemberLists == SeqsUpTo(SegEntities, MaxSegMembers)

RECURSIVE SegTores(_, _)
SegTores(segs, s) ==
    IF s > Len(SegmentNames) THEN <<>>
    ELSE [i \in 1..Len(segs[SegmentNames[s]]) |->
              <<"entity", segs[SegmentNames[s]][i]>>]
         \o SegTores(segs, s + 1)

\* programs: one segment populated at a time, plus one more type
VPrograms ==
    {[tores |-> <<<<"type", t>>>> \o SegTores(segs, 1), segs |-> segs] :
        t \in {T_int, T_nomode},
        segs \in {[n \in Range(SegmentNames) |->
                      IF n = name THEN ms ELSE <<>>] :
                  name \in Range(SegmentNames), ms \in SegMemberLists}}

(***************************************************************************)
(* The verifier as a state machine: the initial state holds the call that  *)
(* is made (entry point and argument), the actions run it and record what  *)
(* it returned and how many lines it wrote.                                *)
(***************************************************************************)
NoJob == [api |-> "none", arg |-> <<>>]

IdleVerify == vjob = NoJob /\ vres = VOk

NoGraph ==
    /\ nodes = <<>> /\ link = <<>> /\ outs = <<>>
    /\ props = {} /\ reserved = {}

IdleUnroll == up = <<>>

IdleLower == irp = <<>> /\ lenv = <<>>

VJobEntity == \E entity \in VEntities :
                 vjob = [api |-> "check_entity", arg |-> entity]

VJobType == \E tp \in VTypes : vjob = [api |-> "check_type", arg |-> tp]

VJobProgram == \E prog \in VPrograms :
                  vjob = [api |-> "tr_verify", arg |-> prog]

InitVerify ==
    /\ scen = "verify"
    /\ pc = "call"
    /\ (VJobEntity \/ VJobType \/ VJobProgram)
    /\ vres = VOk
    /\ NoGraph
    /\ IdleUnroll
    /\ IdleLower

CallCheckEntity ==
    /\ scen = "verify" /\ pc = "call"
    /\ vjob.api = "check_entity"
    /\ vres' = check_entity(vjob.arg)
    /\ pc' = "returned"
    /\ UNCHANGED <<scen, vjob, varsG, up, varsL>>

CallCheckType ==
    /\ scen = "verify" /\ pc = "call"
    /\ vjob.api = "check_type"
    /\ vres' = check_type(vjob.arg)
    /\ pc' = "returned"
    /\ UNCHANGED <<scen, vjob, varsG, up, varsL>>

CallTrVerify ==
    /\ scen = "verify" /\ pc = "call"
    /\ vjob.api = "tr_verify"
    /\ vres' = tr_verify(vjob.arg)
    /\ pc' = "returned"
    /\ UNCHANGED <<scen, vjob, varsG, up, varsL>>

NextVerify == CallCheckEntity \/ CallCheckType \/ CallTrVerify

SpecVerify == InitVerify /\ [][NextVerify]_vars

\* C9: the verifier returns failure exactly when it reported at least one
\* violation: after check_entity, check_type or tr_verify has returned, the
\* result is false if and only if a 'Verify warning' line was written.
C9_FailureIffReported ==
    pc = "returned" /\ scen = "verify" => (~vres.fine <=> vres.warn > 0)

\* C9 witness: a weak-linkage entity that is not externally visible was
\* checked and a warning was written
C9_LinkageReported ==
    /\ scen = "verify"
    /\ vjob.api = "check_entity"
    /\ "WEAK" \in vjob.arg.linkage
    /\ vjob.arg.visibility # "external"
    /\ vres.warn > 0

(***************************************************************************)
(*                    PART 2: graphs and loop unrolling                    *)
(*                                                                         *)
(* A node is [op, mode, blk, ins, val, sym, pin, loop]: blk is the index   *)
(* of its Block (0 for a Block), ins its inputs without the block, val a   *)
(* number attribute (Proj number, tarval), sym a name attribute (relation, *)
(* entity, type), pin its pinned state and loop the loop a Block belongs   *)
(* to (0 is none).  A graph value g is [nodes, link].                      *)
(***************************************************************************)
MkNode(op, mode, blk, ins, val, sym, pin, loop) ==
    [op |-> op, mode |-> mode, blk |-> blk, ins |-> ins, val |-> val,
     sym |-> sym, pin |-> pin, loop |-> loop]

G == [nodes |-> nodes, link |-> link]

is_Block(g, n) == g.nodes[n].op = "Block"
is_Phi(g, n)   == g.nodes[n].op = "Phi"
is_End(g, n)   == g.nodes[n].op = "End"
is_Proj(g, n)  == g.nodes[n].op = "Proj"
is_Const(g, n) == g.nodes[n].op = "Const"
is_Cmp(g, n)   == g.nodes[n].op = "Cmp"
is_Conv(g, n)  == g.nodes[n].op = "Conv"
is_Load(g, n)  == g.nodes[n].op = "Load"
is_Store(g, n) == g.nodes[n].op = "Store"
is_Call(g, n)  == g.nodes[n].op = "Call"

get_irn_arity(g, n)   == Len(g.nodes[n].ins)
get_nodes_block(g, n) == g.nodes[n].blk
get_block(g, n)       == IF is_Block(g, n) THEN n ELSE g.nodes[n].blk

\* the out edges of node n in a node array: the users of n in index order,
\* position 0 for the block input and i for input i
RECURSIVE OutsFrom(_, _, _)
OutsFrom(ns, n, m) ==
    IF m > Len(ns) THEN <<>>
    ELSE (IF ns[m].blk = n THEN <<<<m, 0>>>> ELSE <<>>)
         \o SelectSeq([i \in 1..Len(ns[m].ins) |->
                          IF ns[m].ins[i] = n THEN <<m, i>> ELSE <<0, 0>>],
                      LAMBDA e : e[1] # 0)
         \o OutsFrom(ns, n, m + 1)

compute_irg_outs(ns) == [n \in 1..Len(ns) |-> OutsFrom(ns, n, 1)]

\* exchange(old, new): every user of old uses new; old turns into an Id
RECURSIVE turn_ins(_, _, _)
turn_ins(ins, old, new) ==
    IF ins = <<>> THEN <<>>
    ELSE <<IF Head(ins) = old THEN new ELSE Head(ins)>>
         \o turn_ins(Tail(ins), old, new)

RECURSIVE turn_nodes(_, _, _, _)
turn_nodes(ns, n, old, new) ==
    IF n = 0 THEN <<>>
    ELSE Append(turn_nodes(ns, n - 1, old, new),
                IF n = old
                THEN [ns[n] EXCEPT !.op = "Id", !.ins = <<new>>]
                ELSE [ns[n] EXCEPT
                         !.ins = turn_ins(@, old, new),
                         !.blk = IF @ = old THEN new ELSE @])

exchange(g, old, new) ==
    [g EXCEPT !.nodes = turn_nodes(@, Len(@), old, new)]

\* the nodes reachable from node n over inputs and block inputs
RECURSIVE ReachFrom(_, _, _)
ReachFrom(ns, todo, seen) ==
    IF todo = {} THEN seen
    ELSE LET n    == CHOOSE x \in todo : TRUE
             next == (Range(ns[n].ins)
                        \cup (IF ns[n].blk # 0 THEN {ns[n].blk} ELSE {}))
                     \ (seen \cup {n})
         IN  ReachFrom(ns, (todo \ {n}) \cup next, seen \cup {n})

EndNode(ns) == CHOOSE n \in 1..Len(ns) : ns[n].op = "End"

Reachable(ns) == ReachFrom(ns, {EndNode(ns)}, {})

(***************************************************************************)
(* The loop tree: up.loops[l] is [outer, elems] with elements              *)
(* <<"node", block>> and <<"loop", son>>; the root is its own outer loop.  *)
(* up.idom[b] is the immediate dominator of block b (0 is none).           *)
(***************************************************************************)
get_loop_outer_loop(U, loop) == U.loops[loop].outer

RECURSIVE is_inner_loop(_, _, _)
is_inner_loop(U, outer_loop, inner_loop) ==
    LET old_inner_loop == inner_loop
        next_loop      == get_loop_outer_loop(U, inner_loop)
    IN  IF next_loop # old_inner_loop /\ next_loop # outer_loop
        THEN is_inner_loop(U, outer_loop, next_loop)
        ELSE next_loop # old_inner_loop

block_is_inside_loop(U, g, block, loop) ==
    LET block_loop == g.nodes[block].loop
    IN  IF block_loop = 0 THEN FALSE
        ELSE block_loop = loop \/ is_inner_loop(U, loop, block_loop)

RECURSIVE block_dominates(_, _, _)
block_dominates(U, a, b) ==
    IF a = b THEN TRUE
    ELSE IF U.idom[b] = 0 THEN FALSE
    ELSE block_dominates(U, a, U.idom[b])

RECURSIVE block_dominates_loop(_, _, _)
block_dominates_loop(U, block, loop) ==
    \A i \in 1..Len(U.loops[loop].elems) :
        LET element == U.loops[loop].elems[i]
        IN  IF element[1] = "node"
            THEN block_dominates(U, block, element[2])
            ELSE block_dominates_loop(U, block, element[2])

\* a variant that stays at the block it starts from
stay_at_block(U, g, header, loop) == header

RECURSIVE walk_up_idom(_, _, _, _)
walk_up_idom(U, g, header, loop) ==
    LET idom == U.idom[header]
    IN  IF idom # 0 /\ block_is_inside_loop(U, g, idom, loop)
        THEN walk_up_idom(U, g, idom, loop)
        ELSE header

\* the block that dominates all blocks of the loop, or 0 (NULL)
get_loop_header(U, g, loop) ==
    LET blocks == SelectSeq(U.loops[loop].elems, LAMBDA e : e[1] = "node")
        header == walk_up_idom(U, g, blocks[1][2], loop)
    IN  IF block_dominates_loop(U, header, loop) THEN header ELSE 0

(***************************************************************************)
(* The rewrite helpers of the unroller.  os is the out-edge table.         *)
(***************************************************************************)
add_edge(g, node, pred) ==
    [g EXCEPT !.nodes[node].ins = Append(@, pred)]

set_irn_in(g, node, in) == [g EXCEPT !.nodes[node].ins = in]

\* exact_copy, the block of the copy, and the three link updates
duplicate_node(g, node, new_block) ==
    LET new_node == Len(g.nodes) + 1
        copy     == IF is_Block(g, node) THEN g.nodes[node]
                    ELSE [g.nodes[node] EXCEPT !.blk = new_block]
        old_link == g.link[node]
        link1    == IF old_link # 0
                    THEN [g.link EXCEPT ![old_link] = new_node]
                    ELSE g.link
        link2    == [link1 EXCEPT ![node] = new_node]
    IN  [nodes |-> Append(g.nodes, copy), link |-> Append(link2, node)]

RECURSIVE rewire_successor_phis(_, _, _, _, _)
rewire_successor_phis(g, os, block, n, i) ==
    IF i > Len(os[block]) THEN g
    ELSE LET phi == os[block][i][1] IN
         IF is_Phi(g, phi)
         THEN LET pred     == g.nodes[phi].ins[n]
                  new_pred == IF g.link[pred] = 0 THEN pred ELSE g.link[pred]
              IN  rewire_successor_phis(add_edge(g, phi, new_pred),
                                        os, block, n, i + 1)
         ELSE rewire_successor_phis(g, os, block, n, i + 1)

rewire_successor_block(g, os, block, n) ==
    LET node     == g.nodes[block].ins[n]
        new_node == g.link[node]
    IN  rewire_successor_phis(add_edge(g, block, new_node), os, block, n, 1)

add_End_keepalive(g, end, ka) == add_edge(g, end, ka)

\* rewire the successors outside the loop
RECURSIVE rewire_outside(_, _, _, _)
rewire_outside(g, os, node, i) ==
    IF i > Len(os[node]) THEN g
    ELSE LET succ == os[node][i][1]
             n    == os[node][i][2]
         IN  IF g.link[succ] = 0 /\ is_Block(g, succ)
             THEN rewire_outside(rewire_successor_block(g, os, succ, n),
                                 os, node, i + 1)
             ELSE IF is_End(g, succ)
             THEN rewire_outside(add_End_keepalive(g, succ, g.link[node]),
                                 os, node, i + 1)
             ELSE rewire_outside(g, os, node, i + 1)

\* the positions of the header whose predecessor has a copy
CopiedPreds(g, header) ==
    SelectSeq([i \in 1..get_irn_arity(g, header) |-> i],
              LAMBDA i : g.link[g.nodes[header].ins[i]] # 0)

\* a variant that gives the copy of the header all predecessors
rewire_header_all(g, header) ==
    LET new_node == g.link[header]
        old_in   == g.nodes[header].ins
        g1 == set_irn_in(g, header,
                  [i \in 1..Len(old_in) |->
                      IF g.link[old_in[i]] # 0 THEN g.link[old_in[i]]
                      ELSE old_in[i]])
    IN  set_irn_in(g1, new_node, old_in)

rewire_header(g, header) ==
    LET new_node == g.link[header]
        old_in   == g.nodes[header].ins
        kept     == CopiedPreds(g, header)
        g1 == set_irn_in(g, header,
                  [i \in 1..Len(old_in) |->
                      IF g.link[old_in[i]] # 0 THEN g.link[old_in[i]]
                      ELSE old_in[i]])
    IN  set_irn_in(g1, new_node, [j \in 1..Len(kept) |-> old_in[kept[j]]])

rewire_header_phi(g, node, header) ==
    LET new_node == g.link[node]
        old_in   == g.nodes[node].ins
        kept     == CopiedPreds(g, header)
        g1 == set_irn_in(g, node,
                  [i \in 1..Len(old_in) |->
                      IF g.link[g.nodes[header].ins[i]] # 0
                         /\ g.link[old_in[i]] # 0
                      THEN g.link[old_in[i]] ELSE old_in[i]])
    IN  set_irn_in(g1, new_node, [j \in 1..Len(kept) |-> old_in[kept[j]]])

rewire_inner(g, node) ==
    LET new_node == g.link[node]
        old_in   == g.nodes[new_node].ins
    IN  set_irn_in(g, new_node,
            [i \in 1..Len(old_in) |->
                IF g.link[old_in[i]] # 0 THEN g.link[old_in[i]]
                ELSE old_in[i]])

rewire_node(g, os, node, header) ==
    LET g1 == rewire_outside(g, os, node, 1)
    IN  IF node = header THEN rewire_header(g1, header)
        ELSE IF is_Phi(g1, node) /\ get_nodes_block(g1, node) = header
        THEN rewire_header_phi(g1, node, header)
        ELSE rewire_inner(g1, node)

RECURSIVE duplicate_block_nodes(_, _, _, _, _)
duplicate_block_nodes(g, os, block, new_block, i) ==
    IF i > Len(os[block]) THEN g
    ELSE LET node == os[block][i][1] IN
         IF get_nodes_block(g, node) # block
         THEN duplicate_block_nodes(g, os, block, new_block, i + 1)
         ELSE duplicate_block_nodes(duplicate_node(g, node, new_block),
                                    os, block, new_block, i + 1)

duplicate_block(g, os, block) ==
    duplicate_block_nodes(duplicate_node(g, block, 0), os, block,
                          Len(g.nodes) + 1, 1)

RECURSIVE rewire_block_nodes(_, _, _, _, _)
rewire_block_nodes(g, os, block, header, i) ==
    IF i > Len(os[block]) THEN g
    ELSE LET node == os[block][i][1] IN
         IF get_nodes_block(g, node) # block
         THEN rewire_block_nodes(g, os, block, header, i + 1)
         ELSE rewire_block_nodes(rewire_node(g, os, node, header),
                                 os, block, header, i + 1)

rewire_block(g, os, block, header) ==
    rewire_block_nodes(rewire_node(g, os, block, header), os, block,
                       header, 1)

\* a sequence without its element at position idx
RemoveAt(seq, idx) ==
    [j \in 1..(Len(seq) - 1) |-> IF j < idx THEN seq[j] ELSE seq[j + 1]]

remove_keep_alive(g, ka) ==
    LET end == EndNode(g.nodes)
    IN  set_irn_in(g, end, SelectSeq(g.nodes[end].ins, LAMBDA x : x # ka))

RECURSIVE remove_block_input_phis(_, _, _, _, _, _)
remove_block_input_phis(g, os, block, idx, n, k) ==
    IF k > Len(os[block]) THEN g
    ELSE LET phi == os[block][k][1] IN
         IF ~is_Phi(g, phi)
         THEN remove_block_input_phis(g, os, block, idx, n, k + 1)
         ELSE IF n = 1
         THEN LET g1 == IF g.nodes[phi].sym = "loop"
                        THEN [remove_keep_alive(g, phi) EXCEPT
                                 !.nodes[phi].sym = ""]
                        ELSE g
                  \* idx ^ 1 on 0-based positions
                  other == IF idx = 1 THEN 2 ELSE 1
              IN  remove_block_input_phis(
                      exchange(g1, phi, g1.nodes[phi].ins[other]),
                      os, block, idx, n, k + 1)
         ELSE remove_block_input_phis(
                  set_irn_in(g, phi, RemoveAt(g.nodes[phi].ins, idx)),
                  os, block, idx, n, k + 1)

\* remove the block input with the given position
remove_block_input(g, os, block, idx) ==
    LET n  == get_irn_arity(g, block) - 1
        g1 == remove_block_input_phis(g, os, block, idx, n, 1)
    IN  set_irn_in(g1, block, RemoveAt(g1.nodes[block].ins, idx))

RECURSIVE find_after_loop(_, _, _, _, _, _)
\* step 1 of rewire_fully_unrolled: acc is [after_loop, n_after]
find_after_loop(U, g, os, loop, edges, acc) ==
    IF edges = <<>> THEN acc
    ELSE LET cf_succ == Head(edges)[1]
             n       == Head(edges)[2]
         IN  find_after_loop(U, g, os, loop, Tail(edges),
                 IF g.link[cf_succ] = 0 /\ is_Block(g, cf_succ)
                    /\ ~block_is_inside_loop(U, g, cf_succ, loop)
                 THEN [after_loop |-> cf_succ, n_after |-> n]
                 ELSE [acc EXCEPT !.n_after = n])

\* the out edges of the control-flow Projs among the users of the header
RECURSIVE header_cf_edges(_, _, _, _)
header_cf_edges(g, os, header, i) ==
    IF i > Len(os[header]) THEN <<>>
    ELSE LET succ == os[header][i][1] IN
         (IF is_Proj(g, succ) /\ g.nodes[succ].mode = "X"
          THEN os[succ] ELSE <<>>)
         \o header_cf_edges(g, os, header, i + 1)

RECURSIVE walk_memory_to_phi(_, _)
walk_memory_to_phi(g, n) ==
    IF is_Phi(g, n) THEN n ELSE walk_memory_to_phi(g, g.nodes[n].ins[1])

\* step 4: one more input for every Phi of the block after the loop
RECURSIVE add_after_loop_phi_inputs(_, _, _, _, _, _)
add_after_loop_phi_inputs(g, os, after_loop, n_after, i, j) ==
    IF j > Len(os[after_loop]) THEN g
    ELSE LET phi == os[after_loop][j][1] IN
         IF ~is_Phi(g, phi)
         THEN add_after_loop_phi_inputs(g, os, after_loop, n_after, i, j + 1)
         ELSE LET pred == g.nodes[phi].ins[n_after]
                  cand == IF is_Phi(g, pred) THEN g.nodes[pred].ins[i]
                          ELSE IF g.nodes[phi].mode = "M"
                          THEN g.nodes[walk_memory_to_phi(g, pred)].ins[i]
                          ELSE g.link[pred]
                  new_pred == IF cand = 0 THEN pred ELSE cand
              IN  add_after_loop_phi_inputs(add_edge(g, phi, new_pred),
                      os, after_loop, n_after, i, j + 1)

\* steps 2 to 5: the jumps back into the header go to the block after it
RECURSIVE cut_back_edges(_, _, _, _, _, _, _, _, _)
cut_back_edges(U, g, os, loop, header, factor, after, i, n_header_preds) ==
    IF i > n_header_preds THEN g
    ELSE LET old_jump   == g.nodes[header].ins[i]
             pred_block == get_nodes_block(g, old_jump)
         IN  IF (g.link[pred_block] = 0 /\ factor > 1)
                \/ ~block_is_inside_loop(U, g, pred_block, loop)
             THEN cut_back_edges(U, g, os, loop, header, factor, after,
                                 i + 1, n_header_preds)
             ELSE LET g1 == add_edge(g, after.after_loop, old_jump)
                      g2 == add_after_loop_phi_inputs(g1, os,
                                after.after_loop, after.n_after, i, 1)
                      g3 == remove_block_input(g2, os, header, i)
                  IN  cut_back_edges(U, g3, os, loop, header, factor, after,
                                     i, n_header_preds - 1)

\* the keep-alives of End without Bads and without repetitions
remove_End_Bads_and_doublets(g) ==
    LET end == EndNode(g.nodes)
        ka  == g.nodes[end].ins
        keep == SelectSeq([i \in 1..Len(ka) |-> i],
                    LAMBDA i : g.nodes[ka[i]].op # "Bad"
                               /\ \A k \in 1..(i - 1) : ka[k] # ka[i])
    IN  set_irn_in(g, end, [j \in 1..Len(keep) |-> ka[keep[j]]])

rewire_fully_unrolled(U, g, os, loop, header, factor) ==
    LET after == find_after_loop(U, g, os, loop,
                     header_cf_edges(g, os, header, 1),
                     [after_loop |-> 0, n_after |-> 0])
    IN  IF after.after_loop = 0 THEN g
        ELSE remove_End_Bads_and_doublets(
                 cut_back_edges(U, g, os, loop, header, factor, after, 1,
                                get_irn_arity(g, header)))

\* a variant without the limit to powers of two
find_any_factor(number, max) ==
    IF number <= max THEN number
    ELSE LET fits == {i \in 2..(number \div 2) :
                         number % i = 0 /\ (number \div i) <= max}
         IN  IF fits = {} THEN 0
             ELSE number \div (CHOOSE i \in fits : \A k \in fits : i <= k)

find_optimal_factor(number, max) ==
    IF number <= max THEN number
    ELSE LET fits == {i \in 2..(number \div 2) :
                         /\ number % i = 0
                         /\ (number \div i) <= max
                         /\ \E k \in 0..number : 2 ^ k = number \div i}
         IN  IF fits = {} THEN 0
             ELSE number \div (CHOOSE i \in fits : \A k \in fits : i <= k)

\* a variant that unrolls by two
find_factor_two(g, os, header, max) == 2

\* the analysis is cut short: the function returns at its fourth line
find_suitable_factor(g, os, header, max) == 0

(***************************************************************************)
(* The linear-induction analysis.  al is the list of alias candidates,     *)
(* most recent first, each [node, addr].                                   *)
(***************************************************************************)
is_binop(g, n) ==
    g.nodes[n].op \in {"Add", "Sub", "Mul", "And", "Or", "Eor", "Shl",
                       "Shr", "Shrs", "Div", "Mod", "Cmp"}

binop_to_op(g, bin_op) == g.nodes[bin_op].op \in {"Add", "Sub", "Mul"}

\* two addresses may be the same location unless they are the addresses
\* of two different entities
get_alias_relation(g, addr1, addr2) ==
    IF addr1 = addr2 THEN "sure_alias"
    ELSE IF g.nodes[addr1].op = "Address" /\ g.nodes[addr2].op = "Address"
            /\ g.nodes[addr1].sym # g.nodes[addr2].sym
    THEN "no_alias"
    ELSE "may_alias"

is_aliased(g, al, node) ==
    IF is_Load(g, node) \/ is_Store(g, node)
    THEN \E k \in 1..Len(al) :
            get_alias_relation(g, al[k].addr, g.nodes[node].ins[2])
                # "no_alias"
    ELSE IF is_Proj(g, node)
    THEN LET pre_proj     == g.nodes[node].ins[1]
             pre_pre_proj == g.nodes[node].ins[1]
         IN  IF ~is_Proj(g, pre_proj) THEN FALSE
             ELSE IF ~is_Call(g, pre_pre_proj) THEN FALSE
             ELSE \E k \in 1..Len(al) :
                     get_alias_relation(g, al[k].addr,
                         g.nodes[pre_pre_proj].ins[2]) # "no_alias"
    ELSE FALSE

\* a call of a function without a graph: its parameters become candidates
RECURSIVE walk_call_for_aliases(_, _, _, _)
walk_call_for_aliases(g, al, call, i) ==
    IF i > get_irn_arity(g, call) THEN al
    ELSE LET param == g.nodes[call].ins[i]
             pre   == IF is_Proj(g, param) THEN g.nodes[param].ins[1] ELSE 0
             entry ==
                IF is_Proj(g, param)
                THEN IF is_Load(g, pre)
                     THEN <<[node |-> pre, addr |-> g.nodes[pre].ins[2]]>>
                     ELSE IF is_Proj(g, pre)
                             /\ is_Call(g, g.nodes[pre].ins[1])
                     THEN <<[node |-> pre,
                             addr |-> g.nodes[g.nodes[pre].ins[1]].ins[2]]>>
                     ELSE <<>>
                ELSE IF g.nodes[param].op = "Address"
                THEN <<[node |-> param, addr |-> param]>>
                ELSE <<>>
         IN  walk_call_for_aliases(g, entry \o al, call, i + 1)

check_for_store(U, g, al, node, loop) ==
    LET al1 == IF is_Call(g, node)
               \* the parameters of a Call are its inputs from the third on
               THEN walk_call_for_aliases(g, al, node, 3)
               ELSE al
    IN  IF ~is_Store(g, node) THEN al1
        ELSE IF loop # 0
                /\ ~block_is_inside_loop(U, g, get_block(g, node), loop)
        THEN al1
        ELSE <<[node |-> node, addr |-> g.nodes[node].ins[2]]>> \o al1

RECURSIVE check_block_for_stores(_, _, _, _, _, _, _)
check_block_for_stores(U, g, os, al, block, loop, j) ==
    IF j > Len(os[block]) THEN al
    ELSE check_block_for_stores(U, g, os,
             check_for_store(U, g, al, os[block][j][1], loop),
             block, loop, j + 1)

RECURSIVE get_all_stores(_, _, _, _)
RECURSIVE get_all_stores_from(_, _, _, _, _, _)
get_all_stores_from(U, g, os, al, loop, i) ==
    IF i > Len(U.loops[loop].elems) THEN al
    ELSE LET element == U.loops[loop].elems[i] IN
         IF element[1] = "loop"
         THEN get_all_stores_from(U, g, os,
                  get_all_stores(U, g, os, element[2]), loop, i + 1)
         ELSE get_all_stores_from(U, g, os,
                  check_block_for_stores(U, g, os, al, element[2], loop, 1),
                  loop, i + 1)

\* the list is emptied on entry, on the entry for a child loop as well
get_all_stores(U, g, os, loop) == get_all_stores_from(U, g, os, <<>>, loop, 1)

RECURSIVE is_valid_base(_, _, _, _, _)
is_valid_base(U, g, al, node, loop) ==
    IF is_Const(g, node) THEN TRUE
    ELSE IF is_Proj(g, node) /\ is_Proj(g, g.nodes[node].ins[1])
    THEN LET proj_call == g.nodes[g.nodes[node].ins[1]].ins[1]
         IN  IF ~is_Call(g, proj_call) THEN FALSE
             ELSE IF g.nodes[proj_call].sym # "pure" THEN FALSE
             ELSE IF \E i \in 3..get_irn_arity(g, proj_call) :
                        ~is_valid_base(U, g, al, g.nodes[proj_call].ins[i],
                                       loop)
             THEN FALSE
             ELSE ~is_aliased(g, al, proj_call)
    ELSE IF is_Proj(g, node) /\ is_Load(g, g.nodes[node].ins[1])
    THEN ~is_aliased(g, al, g.nodes[node].ins[1])
    ELSE IF is_Phi(g, node)
    THEN /\ \A i \in 1..get_irn_arity(g, node) :
               is_valid_base(U, g, al, g.nodes[node].ins[i], loop)
         /\ ~(loop # 0
              /\ Cardinality({i \in 1..get_irn_arity(g, node) :
                     block_is_inside_loop(U, g,
                         get_block(g, g.nodes[node].ins[i]), loop)}) > 1)
    ELSE IF is_Conv(g, node)
    THEN is_valid_base(U, g, al, g.nodes[node].ins[1], loop)
    ELSE FALSE

is_valid_incr(U, g, al, phi, node) ==
    IF ~is_binop(g, node) THEN FALSE
    ELSE IF ~binop_to_op(g, node) THEN FALSE
    ELSE LET left  == g.nodes[node].ins[1]
             right == g.nodes[node].ins[2]
             node_to_check == IF right = phi THEN left
                              ELSE IF left = phi THEN right ELSE 0
         IN  IF ~is_Phi(g, left) /\ ~is_Phi(g, right) THEN FALSE
             ELSE IF node_to_check = 0 THEN FALSE
             ELSE is_valid_base(U, g, al, node_to_check,
                      g.nodes[get_block(g, node_to_check)].loop)

\* yields [ret, al]: the verdict and the candidate list left behind
check_phi(U, g, os, al, phi, loop) ==
    LET phi_preds == get_irn_arity(g, phi)
        al1       == get_all_stores(U, g, os, loop)
        incrs     == {i \in 1..phi_preds :
                         is_valid_incr(U, g, al1, phi, g.nodes[phi].ins[i])}
        incr_pred_index == CHOOSE i \in incrs : \A k \in incrs : k <= i
    IN  IF phi_preds < 2 THEN [ret |-> FALSE, al |-> al]
        ELSE IF incrs = {} THEN [ret |-> FALSE, al |-> al1]
        ELSE [ret |-> \A i \in 1..phi_preds :
                          i = incr_pred_index
                          \/ is_valid_base(U, g, al1, g.nodes[phi].ins[i],
                                           loop),
              al |-> al1]

IsOrderRelation(rel) == rel \in {"ge", "gt", "le", "lt"}

\* the users of the header that are order comparisons in the header
HeaderCompares(g, os, header) ==
    SelectSeq([i \in 1..Len(os[header]) |-> os[header][i][1]],
              LAMBDA node : /\ get_nodes_block(g, node) = header
                            /\ is_Cmp(g, node)
                            /\ IsOrderRelation(g.nodes[node].sym))

\* for a header that is not NULL; yields [ret, al]
determine_lin_unroll_info(U, g, os, al, loop, header) ==
    LET cmps == HeaderCompares(g, os, header) IN
    IF cmps = <<>> THEN [ret |-> FALSE, al |-> al]
    ELSE LET node  == cmps[1]
             left  == g.nodes[node].ins[1]
             right == g.nodes[node].ins[2]
             r1 == IF is_Phi(g, left)
                   THEN check_phi(U, g, os, al, left, loop)
                   ELSE [ret |-> FALSE, al |-> al]
             r2 == IF is_Phi(g, right)
                   THEN check_phi(U, g, os, r1.al, right, loop)
                   ELSE [ret |-> FALSE, al |-> r1.al]
         IN  [ret |-> r1.ret \/ r2.ret, al |-> r2.al]

(***************************************************************************)
(* Graphs with loops, in LCSSA form, with their loop tree and dominators.  *)
(***************************************************************************)
Blk(ins, loop) == MkNode("Block", "BB", 0, ins, 0, "", TRUE, loop)
Nd(op, mode, blk, ins) == MkNode(op, mode, blk, ins, 0, "", FALSE, 0)
Cst(blk, val) == MkNode("Const", "Is", blk, <<>>, val, "", FALSE, 0)
PrjX(blk, pred, pn) == MkNode("Proj", "X", blk, <<pred>>, pn, "", FALSE, 0)
CmpN(blk, l, r, rel) == MkNode("Cmp", "b", blk, <<l, r>>, 0, rel, FALSE, 0)
PhiN(blk, ins, flag) == MkNode("Phi", "Is", blk, ins, 0, flag, FALSE, 0)

KeepAlives(ka, phi, header) ==
    IF ka = "phi" THEN <<phi>> ELSE IF ka = "block" THEN <<header>> ELSE <<>>

\* for (i = 0; i rel trips; i = i incr 1) in a header and a body block
WhileLoopNodes(trips, rel, incr, ka) ==
    << Blk(<<>>, 1),                          \*  1 start block
       Nd("Jmp", "X", 1, <<>>),              \*  2 jump into the loop
       Blk(<<2, 9>>, 2),                      \*  3 loop header
       Cst(1, 0), Cst(1, trips), Cst(1, 1),   \*  4 5 6
       PhiN(3, <<4, 11>>, IF ka = "phi" THEN "loop" ELSE ""),   \*  7 i
       CmpN(3, 7, 5, rel),                    \*  8
       Nd("Jmp", "X", 12, <<>>),             \*  9 jump back to the header
       Nd("Cond", "T", 3, <<8>>),             \* 10
       Nd(incr, "Is", 12, <<7, 6>>),          \* 11 the increment
       Blk(<<13>>, 2),                        \* 12 loop body
       PrjX(3, 10, 1), PrjX(3, 10, 0),        \* 13 14
       Blk(<<14>>, 1),                        \* 15 block after the loop
       PhiN(15, <<7>>, ""),                   \* 16
       Nd("Return", "X", 15, <<16>>),         \* 17
       Blk(<<17>>, 1),                        \* 18 end block
       Nd("End", "X", 18, KeepAlives(ka, 7, 3)) >>

WhileLoopTree ==
    << [outer |-> 1, elems |-> <<<<"node", 1>>, <<"loop", 2>>,
                                 <<"node", 15>>, <<"node", 18>>>>],
       [outer |-> 1, elems |-> <<<<"node", 3>>, <<"node", 12>>>>] >>

WhileLoopIdom ==
    [n \in 1..19 |-> CASE n = 3 -> 1 [] n = 12 -> 3 [] n = 15 -> 3
                       [] n = 18 -> 15 [] OTHER -> 0]

\* do { i = i + 1 } while (i rel trips) in one block
DoWhileNodes(trips, rel, ka) ==
    << Blk(<<>>, 1),                          \*  1 start block
       Nd("Jmp", "X", 1, <<>>),              \*  2
       Blk(<<2, 9>>, 2),                      \*  3 the loop
       Cst(1, 0), Cst(1, trips), Cst(1, 1),   \*  4 5 6
       PhiN(3, <<4, 8>>, IF ka = "phi" THEN "loop" ELSE ""),    \*  7
       Nd("Add", "Is", 3, <<7, 6>>),          \*  8
       PrjX(3, 11, 1),                        \*  9 jump back
       CmpN(3, 8, 5, rel),                    \* 10
       Nd("Cond", "T", 3, <<10>>),            \* 11
       PrjX(3, 11, 0),                        \* 12
       Blk(<<12>>, 1),                        \* 13 block after the loop
       PhiN(13, <<8>>, ""),                   \* 14
       Nd("Return", "X", 13, <<14>>),         \* 15
       Blk(<<15>>, 1),                        \* 16 end block
       Nd("End", "X", 16, KeepAlives(ka, 7, 3)) >>

DoWhileTree ==
    << [outer |-> 1, elems |-> <<<<"node", 1>>, <<"loop", 2>>,
                                 <<"node", 13>>, <<"node", 16>>>>],
       [outer |-> 1, elems |-> <<<<"node", 3>>>>] >>

DoWhileIdom ==
    [n \in 1..17 |-> CASE n = 3 -> 1 [] n = 13 -> 3 [] n = 16 -> 13
                       [] OTHER -> 0]

\* the while loop with a header that is entered over both branches of a
\* Cond in the start block: if (?) i = 0; else i = 1; while (i < trips) ...
TwoWayInNodes(trips, ka) ==
    LET w == WhileLoopNodes(trips, "lt", "Add", ka)
    IN  [w EXCEPT ![2] = PrjX(1, 20, 1),
                  ![3] = Blk(<<2, 9, 21>>, 2),
                  ![7] = PhiN(3, <<4, 11, 6>>,
                              IF ka = "phi" THEN "loop" ELSE "")]
        \o << Nd("Cond", "T", 1, <<22>>),     \* 20
              PrjX(1, 20, 0),                 \* 21 the second way in
              MkNode("Unknown", "b", 1, <<>>, 0, "", FALSE, 0) >>

TwoWayInIdom ==
    [n \in 1..22 |-> CASE n = 3 -> 1 [] n = 12 -> 3 [] n = 15 -> 3
                       [] n = 18 -> 15 [] OTHER -> 0]

\* a loop of two blocks that is entered at both of them
TwoEntryNodes ==
    << Blk(<<>>, 1),                          \*  1 start block
       Nd("Cond", "T", 1, <<3>>),             \*  2
       MkNode("Unknown", "b", 1, <<>>, 0, "", FALSE, 0),        \*  3
       PrjX(1, 2, 1), PrjX(1, 2, 0),          \*  4 5
       Blk(<<4, 11>>, 2),                     \*  6 block A
       Nd("Jmp", "X", 6, <<>>),              \*  7
       Blk(<<5, 7>>, 2),                      \*  8 block B
       Nd("Cond", "T", 8, <<3>>),             \*  9
       PrjX(8, 9, 0), PrjX(8, 9, 1),          \* 10 11
       Blk(<<10>>, 1),                        \* 12 exit
       Nd("Return", "X", 12, <<>>),           \* 13
       Blk(<<13>>, 1),                        \* 14 end block
       Nd("End", "X", 14, <<>>) >>

TwoEntryTree ==
    << [outer |-> 1, elems |-> <<<<"node", 1>>, <<"loop", 2>>,
                                 <<"node", 12>>, <<"node", 14>>>>],
       [outer |-> 1, elems |-> <<<<"node", 6>>, <<"node", 8>>>>] >>

TwoEntryIdom ==
    [n \in 1..15 |-> CASE n = 6 -> 1 [] n = 8 -> 1 [] n = 12 -> 8
                       [] n = 14 -> 12 [] OTHER -> 0]

Relations == {"lt", "le", "eq"}
Increments == {"Add", "Sub", "Eor"}
KeepKinds == {"none", "phi", "block"}
TripCounts == {1, 8}

LoopGraph(name, ns, tree, idom, trips) ==
    [name |-> name, nodes |-> ns, loops |-> tree, idom |-> idom,
     trips |-> trips]

WhileLoopGraphs ==
    {LoopGraph("while", WhileLoopNodes(t, r, i, k), WhileLoopTree,
               WhileLoopIdom, t) :
        t \in TripCounts, r \in Relations, i \in Increments, k \in KeepKinds}

DoWhileGraphs ==
    {LoopGraph("dowhile", DoWhileNodes(t, r, k), DoWhileTree, DoWhileIdom, t) :
        t \in TripCounts, r \in Relations, k \in KeepKinds}

TwoEntryGraphs ==
    {LoopGraph("twoentry", TwoEntryNodes, TwoEntryTree, TwoEntryIdom, 0)}

TwoWayInGraphs ==
    {LoopGraph("twowayin", TwoWayInNodes(t, k), WhileLoopTree, TwoWayInIdom,
               t) :
        t \in TripCounts, k \in KeepKinds}

LoopGraphs == WhileLoopGraphs \cup DoWhileGraphs \cup TwoEntryGraphs

\* the loops in the order duplicate_innermost_loops handles them
RECURSIVE LoopPostOrder(_, _)
RECURSIVE SonsPostOrder(_, _, _)
SonsPostOrder(loops, loop, i) ==
    IF i > Len(loops[loop].elems) THEN <<>>
    ELSE (IF loops[loop].elems[i][1] = "loop"
          THEN LoopPostOrder(loops, loops[loop].elems[i][2]) ELSE <<>>)
         \o SonsPostOrder(loops, loop, i + 1)

LoopPostOrder(loops, loop) == SonsPostOrder(loops, loop, 1) \o <<loop>>

(***************************************************************************)
(* unroll_loops as a state machine.  The initial state is the graph the    *)
(* pass is called on, with the properties it happens to have.              *)
(***************************************************************************)
MaxFactor == 8
MaxSize == 400

Factors == {1, 2, MaxFactor}

UnrollAssuredProps ==
    {"CONSISTENT_LOOPINFO", "CONSISTENT_OUTS", "NO_BADS",
     "CONSISTENT_DOMINANCE"}

\* a variant that forgets the loop information
ClearsDominanceOnly == {"CONSISTENT_DOMINANCE"}

UnrollClearedProps == {"CONSISTENT_DOMINANCE", "CONSISTENT_LOOPINFO"}

UnrollResources == {"IRN_LINK"}

NoLinks(ns) == [n \in 1..Len(ns) |-> 0]

UnrollState(graph, factor, maxsize, fully, counted, props0) ==
    [graph |-> graph.name, trips |-> graph.trips, loops |-> graph.loops,
     idom |-> graph.idom, nodes0 |-> graph.nodes, props0 |-> props0,
     factor |-> factor,
     maxsize |-> maxsize, fully |-> fully, n_loops_unrolled |-> counted,
     status |-> "called", todo |-> <<>>, loop |-> 0, header |-> 0,
     j |-> 0, i |-> 0, alias |-> <<>>, can_unroll |-> <<>>]

InitUnroll ==
    /\ scen = "unroll"
    /\ pc = "ul_enter"
    /\ IdleVerify
    /\ IdleLower
    /\ \E graph \in LoopGraphs, factor \in Factors, counted \in 0..1,
          props0 \in SUBSET UnrollAssuredProps :
          /\ nodes = graph.nodes
          /\ props = props0
          /\ up = UnrollState(graph, factor, MaxSize, FALSE, counted, props0)
    /\ link = NoLinks(nodes)
    /\ outs = IF "CONSISTENT_OUTS" \in props THEN compute_irg_outs(nodes)
              ELSE <<>>
    /\ reserved = {}

\* unroll_loops up to the call of duplicate_innermost_loops
UnrollLoopsEnter ==
    /\ scen = "unroll" /\ pc = "ul_enter"
    /\ up' = [up EXCEPT !.n_loops_unrolled = 0, !.status = "running",
                        !.todo = LoopPostOrder(up.loops, 1)]
    /\ props' = props \cup UnrollAssuredProps
    /\ outs' = compute_irg_outs(nodes)
    /\ reserved' = reserved \cup UnrollResources
    /\ pc' = "ul_loops"
    /\ UNCHANGED <<scen, varsV, varsL, nodes, link>>

\* duplicate_innermost_loops for one loop whose header is found
AnalyseLoop ==
    /\ scen = "unroll" /\ pc = "ul_loops" /\ up.todo # <<>>
    /\ LET loop   == Head(up.todo)
           header == get_loop_header(up, G, loop)
           r      == determine_lin_unroll_info(up, G, outs, up.alias, loop,
                                               header)
       IN  /\ header # 0
           /\ up' = [up EXCEPT !.todo = Tail(@), !.loop = loop,
                               !.header = header, !.alias = r.al,
                               !.can_unroll = Append(@, r.ret)]
    /\ UNCHANGED <<scen, pc, varsV, varsL, varsG>>

\* duplicate_innermost_loops for a loop without a header: the out-edge
\* count is read through the NULL pointer, which is undefined; the process
\* is killed, or it reads some count and goes on without a finding
AnalyseLoopNoHeader ==
    /\ scen = "unroll" /\ pc = "ul_loops" /\ up.todo # <<>>
    /\ get_loop_header(up, G, Head(up.todo)) = 0
    /\ \E outcome \in {"killed", "goes_on"} :
          IF outcome = "killed"
          THEN /\ up' = [up EXCEPT !.status = "crashed",
                                   !.loop = Head(up.todo), !.header = 0]
               /\ pc' = "crashed"
          ELSE /\ up' = [up EXCEPT !.todo = Tail(@), !.loop = Head(up.todo),
                                   !.header = 0,
                                   !.can_unroll = Append(@, FALSE)]
               /\ pc' = pc
    /\ UNCHANGED <<scen, varsV, varsL, varsG>>

\* unroll_loops after duplicate_innermost_loops has returned
UnrollLoopsExit ==
    /\ scen = "unroll" /\ pc = "ul_loops" /\ up.todo = <<>>
    /\ reserved' = reserved \ UnrollResources
    /\ props' = props \ UnrollClearedProps
    /\ up' = [up EXCEPT !.status = "returned"]
    /\ pc' = "returned"
    /\ UNCHANGED <<scen, varsV, varsL, nodes, link, outs>>

NextUnroll ==
    UnrollLoopsEnter \/ AnalyseLoop \/ AnalyseLoopNoHeader \/ UnrollLoopsExit

SpecUnroll == InitUnroll /\ [][NextUnroll]_vars

\* the blocks of a loop (copies of its blocks included)
LoopBlocks(ns, loop) ==
    {n \in 1..Len(ns) : ns[n].op = "Block" /\ ns[n].loop = loop}

\* the 8-trip counting loop of a header and a body, unroll factor 8
EightTripCall ==
    /\ scen = "unroll"
    /\ up.graph = "while" /\ up.trips = 8 /\ up.factor = 8
    /\ up.nodes0[8].sym = "lt" /\ up.nodes0[11].op = "Add"

\* C4: an 8-trip loop with maximum factor 8 is fully unrolled by
\* unroll_loops: when the pass has returned, the body was duplicated 7
\* times, the header has lost its predecessor inside the loop, and End
\* keeps no Bad alive.
C4_EightTripLoopFullyUnrolled ==
    (EightTripCall /\ pc = "returned") =>
        /\ up.n_loops_unrolled = 1
        /\ Cardinality(LoopBlocks(nodes, 2))
              = 8 * Cardinality(LoopBlocks(up.nodes0, 2))
        /\ get_irn_arity(G, 3) = 1
        /\ \A i \in 1..get_irn_arity(G, EndNode(nodes)) :
              nodes[nodes[EndNode(nodes)].ins[i]].op # "Bad"

\* C4 witness: unroll_loops has returned from that call, and the analysis
\* had found the loop to be a linear induction
C4_EightTripLoopAnalysed ==
    /\ EightTripCall /\ pc = "returned"
    /\ up.can_unroll = <<TRUE, FALSE>>

\* C5: after unroll_loops has returned, CONSISTENT_DOMINANCE and
\* CONSISTENT_LOOPINFO are cleared and NO_BADS still holds (the property is
\* set and no Bad is reachable from End).
C5_PropertiesAfterUnroll ==
    (scen = "unroll" /\ pc = "returned") =>
        /\ "CONSISTENT_DOMINANCE" \notin props
        /\ "CONSISTENT_LOOPINFO" \notin props
        /\ "NO_BADS" \in props
        /\ \A n \in Reachable(nodes) : nodes[n].op # "Bad"

\* C5 witness: the pass has returned on a graph that had none of the
\* properties when it was called
C5_ReturnedFromBareGraph ==
    /\ scen = "unroll" /\ pc = "returned"
    /\ up.status = "returned"
    /\ up.props0 = {}
    /\ props = {"CONSISTENT_OUTS", "NO_BADS"}

\* C7: when get_loop_header yields NULL or the linear-induction check
\* fails, the pass returns normally for that loop and leaves the graph
\* unchanged: it neither fails nor changes a node.
C7_RejectedLoopIsSkipped ==
    (scen = "unroll" /\ up.loop # 0
     /\ (up.header = 0 \/ up.can_unroll # <<>>))
        => (up.status # "crashed" /\ nodes = up.nodes0)

\* C7 witness: a loop whose linear-induction check failed was passed over
C7_InductionCheckFailed ==
    /\ scen = "unroll" /\ pc = "returned"
    /\ up.graph = "while" /\ up.nodes0[11].op = "Eor"
    /\ up.can_unroll = <<FALSE, FALSE>>
    /\ nodes = up.nodes0

(***************************************************************************)
(* The body of unroll_loop behind its two early returns, entered with an   *)
(* unroll factor and the decision to unroll fully: the rounds of           *)
(* duplicate_block and rewire_block over the blocks of the loop, then      *)
(* rewire_fully_unrolled.                                                  *)
(***************************************************************************)
MaxRounds == 3

RewireGraphs ==
    {g \in WhileLoopGraphs \cup DoWhileGraphs \cup TwoWayInGraphs :
        g.nodes[8].sym \in {"lt", ""} /\ g.nodes[10].sym \in {"lt", ""}
        /\ g.nodes[11].op \in {"Add", "Cond"}}

InitRewire ==
    /\ scen = "rewire"
    /\ pc = "ul_clear"
    /\ IdleVerify
    /\ IdleLower
    /\ \E graph \in RewireGraphs, factor \in 1..MaxRounds,
          fully \in BOOLEAN, stale \in 0..1 :
          /\ nodes = graph.nodes
          /\ link = [n \in 1..Len(graph.nodes) |-> stale]
          /\ up = [UnrollState(graph, factor, MaxSize, fully, 0,
                               UnrollAssuredProps)
                      EXCEPT !.status = "running", !.loop = 2]
    /\ props = UnrollAssuredProps
    /\ outs = compute_irg_outs(nodes)
    /\ reserved = UnrollResources

LoopElement(i) == up.loops[up.loop].elems[i]

\* the walk with firm_clear_link, and the header of the loop
UnrollLoopClearLinks ==
    /\ scen = "rewire" /\ pc = "ul_clear"
    /\ link' = NoLinks(nodes)
    /\ up' = [up EXCEPT !.header = get_loop_header(up, G, up.loop),
                        !.j = 1, !.i = 1]
    /\ pc' = IF up.factor > 1 THEN "ul_dup" ELSE "ul_finish"
    /\ UNCHANGED <<scen, varsV, varsL, nodes, outs, props, reserved>>

\* step 1 for one element of the loop
UnrollLoopDuplicateBlock ==
    /\ scen = "rewire" /\ pc = "ul_dup"
    /\ LET g1 == IF LoopElement(up.i)[1] = "node"
                 THEN duplicate_block(G, outs, LoopElement(up.i)[2])
                 ELSE G
           last == up.i = Len(up.loops[up.loop].elems)
       IN  /\ nodes' = g1.nodes
           /\ link' = g1.link
           /\ up' = [up EXCEPT !.i = IF last THEN 1 ELSE @ + 1]
           /\ pc' = IF last THEN "ul_rewire" ELSE pc
    /\ UNCHANGED <<scen, varsV, varsL, outs, props, reserved>>

\* step 2 for one element of the loop
UnrollLoopRewireBlock ==
    /\ scen = "rewire" /\ pc = "ul_rewire"
    /\ LET g1 == IF LoopElement(up.i)[1] = "node"
                 THEN rewire_block(G, outs, LoopElement(up.i)[2], up.header)
                 ELSE G
           last == up.i = Len(up.loops[up.loop].elems)
       IN  /\ nodes' = g1.nodes
           /\ link' = g1.link
           /\ up' = [up EXCEPT !.i = IF last THEN 1 ELSE @ + 1,
                               !.j = IF last THEN @ + 1 ELSE @]
           /\ pc' = IF ~last THEN pc
                    ELSE IF up.j + 1 < up.factor THEN "ul_dup"
                    ELSE "ul_finish"
    /\ UNCHANGED <<scen, varsV, varsL, outs, props, reserved>>

\* the count of unrolled loops, and the removal of the control-flow loop
UnrollLoopFinish ==
    /\ scen = "rewire" /\ pc = "ul_finish"
    /\ LET g1 == IF up.fully
                 THEN rewire_fully_unrolled(up, G, outs, up.loop, up.header,
                                            up.factor)
                 ELSE G
       IN  /\ nodes' = g1.nodes
           /\ link' = g1.link
    /\ up' = [up EXCEPT !.n_loops_unrolled = @ + 1, !.status = "returned"]
    /\ pc' = "returned"
    /\ UNCHANGED <<scen, varsV, varsL, outs, props, reserved>>

NextRewire ==
    \/ UnrollLoopClearLinks
    \/ UnrollLoopDuplicateBlock
    \/ UnrollLoopRewireBlock
    \/ UnrollLoopFinish

SpecRewire == InitRewire /\ [][NextRewire]_vars

(***************************************************************************)
(* The Phi-arity invariant.                                                *)
(***************************************************************************)
\* the blocks from which block b is reached over control flow, b included
RECURSIVE CfgAncestors(_, _, _)
CfgAncestors(ns, todo, seen) ==
    IF todo = {} THEN seen
    ELSE LET b    == CHOOSE x \in todo : TRUE
             pred == {IF ns[ns[b].ins[i]].op = "Block" THEN ns[b].ins[i]
                      ELSE ns[ns[b].ins[i]].blk : i \in 1..Len(ns[b].ins)}
                     \ (seen \cup {b} \cup {0})
         IN  CfgAncestors(ns, (todo \ {b}) \cup pred, seen \cup {b})

BlockOf(ns, n) == IF ns[n].op = "Block" THEN n ELSE ns[n].blk

PhiMatchesBlock(ns, phi) ==
    LET block == ns[phi].blk IN
    /\ Len(ns[phi].ins) = Len(ns[block].ins)
    /\ \A i \in 1..Len(ns[phi].ins) :
          BlockOf(ns, ns[phi].ins[i])
              \in CfgAncestors(ns, {BlockOf(ns, ns[block].ins[i])}, {})


(***************************************************************************)
(*                    PART 3: doubleword lowering                          *)
(*                                                                         *)
(* irp is the program: irgs[i] is [nodes, props, reserved, ent] with ent   *)
(* the method type of the entity of the graph, types the method types      *)
(* [params, ress, lowered, assoc] (parameter and result types are          *)
(* primitive types, written as their modes; assoc 0 is none), entities the *)
(* entities of the global type, modes the registered modes, and the static *)
(* variables of the pass (lowered_type, intrinsic_fkt, tp_u, tp_s,         *)
(* binop_tp_u, ...; 0 and "" are NULL).  lenv is the lower_env_t of the    *)
(* running lower_dw_ops together with the position of its graph walk.      *)
(* The lowering functions work on a value L = [nodes, link, irp, lenv,     *)
(* panic]; panic is the message of a fatal abort ("" is none).             *)
(***************************************************************************)
MkMode(name, sort, bits, sign, modulo_shift) ==
    [name |-> name, sort |-> sort, bits |-> bits, sign |-> sign,
     modulo_shift |-> modulo_shift]

mode_is_int(mode) == mode.sort = "int"

\* the loop of setup_modes over the registered modes
RECURSIVE setup_modes_search(_, _, _, _, _)
setup_modes_search(modes, size_bits, i, dw_signed, dw_unsigned) ==
    IF i > Len(modes)
    THEN [panic |-> "", signed |-> dw_signed,
          unsigned |-> dw_unsigned]
    ELSE LET mode == modes[i]
         IN  IF ~mode_is_int(mode) \/ mode.bits # size_bits
             THEN setup_modes_search(modes, size_bits, i + 1,
                                     dw_signed, dw_unsigned)
             ELSE IF mode.sign
             THEN IF dw_signed # 0
                  THEN [panic |-> "multiple double word signed modes found",
                        signed |-> dw_signed,
                        unsigned |-> dw_unsigned]
                  ELSE setup_modes_search(modes, size_bits, i + 1, i,
                                          dw_unsigned)
             ELSE IF dw_unsigned # 0
                  THEN [panic |-> "multiple double word unsigned modes found",
                        signed |-> dw_signed,
                        unsigned |-> dw_unsigned]
                  ELSE setup_modes_search(modes, size_bits, i + 1,
                                          dw_signed, i)

\* setup_modes: the doubleword modes of the program and the two new modes
\* of half the size, or the message of the panic
setup_modes(modes, size_bits) ==
    LET found == setup_modes_search(modes, size_bits, 1, 0, 0)
        none  == [panic |-> found.panic, high_signed |-> "",
                  high_unsigned |-> "", low_signed |-> "",
                  low_unsigned |-> "", modulo_shift |-> 0]
    IN  IF found.panic # "" THEN none
        ELSE IF found.signed = 0 \/ found.unsigned = 0
        THEN [none EXCEPT !.panic = "Couldn't find doubleword modes"]
        ELSE LET modulo_shift == modes[found.signed].modulo_shift
             IN  IF modulo_shift # size_bits /\ modulo_shift # 0
                 THEN [none EXCEPT !.panic =
                          "Don't know what new modulo shift to use"]
                 ELSE [panic |-> "",
                       high_signed   |-> modes[found.signed].name,
                       high_unsigned |-> modes[found.unsigned].name,
                       low_signed    |-> "WS",
                       low_unsigned  |-> "WU",
                       modulo_shift  |-> modulo_shift \div 2]

is_high(env, mode) == mode = env.high_signed \/ mode = env.high_unsigned

MkMethod(params, ress) ==
    [params |-> params, ress |-> ress, lowered |-> FALSE, assoc |-> 0]

is_lowered_type(P, tp) == P.types[tp].lowered

get_associated_type(P, tp) == P.types[tp].assoc

\* set_lowered_type: mark the new type and associate the two types
set_lowered_type(P, tp, lowered) ==
    [P EXCEPT !.types[lowered].lowered = TRUE,
              !.types[tp].assoc = lowered,
              !.types[lowered].assoc = tp]

mtp_must_be_lowered(P, env, mtp) ==
    \E i \in 1..Len(P.types[mtp].params) :
        is_high(env, P.types[mtp].params[i])

\* a variant that puts the type of the high word first
RECURSIVE lowered_modes_high_first(_, _, _)
lowered_modes_high_first(P, env, tps) ==
    IF tps = <<>> THEN <<>>
    ELSE (IF Head(tps) = env.high_signed THEN <<P.tp_s, P.tp_u>>
          ELSE IF Head(tps) = env.high_unsigned THEN <<P.tp_u, P.tp_u>>
          ELSE <<Head(tps)>>)
         \o lowered_modes_high_first(P, env, Tail(tps))

\* the parameter or result types of the lowered method type
RECURSIVE lowered_modes(_, _, _)
lowered_modes(P, env, tps) ==
    IF tps = <<>> THEN <<>>
    ELSE (IF Head(tps) = env.high_signed THEN <<P.tp_u, P.tp_s>>
          ELSE IF Head(tps) = env.high_unsigned THEN <<P.tp_u, P.tp_u>>
          ELSE <<Head(tps)>>)
         \o lowered_modes(P, env, Tail(tps))

\* lower_mtp on the program: [P, res]
lower_mtp(P, env, mtp) ==
    IF is_lowered_type(P, mtp) THEN [P |-> P, res |-> mtp]
    ELSE IF \E entry \in P.lowered_type : entry[1] = mtp
    THEN [P |-> P,
          res |-> (CHOOSE entry \in P.lowered_type : entry[1] = mtp)[2]]
    ELSE LET res == Len(P.types) + 1
             new == MkMethod(lowered_modes(P, env, P.types[mtp].params),
                             lowered_modes(P, env, P.types[mtp].ress))
             P1  == [P EXCEPT !.types = Append(@, new)]
             P2  == set_lowered_type(P1, mtp, res)
         IN  [P |-> [P2 EXCEPT !.lowered_type = @ \cup {<<mtp, res>>}],
              res |-> res]

\* def_create_intrinsic_fkt: the new entity of the global type
def_create_intrinsic_fkt(method, op, imode, omode) ==
    [owner |-> "glob",
     ident |-> IF imode = omode THEN <<"__l", op, imode>>
               ELSE <<"__l", op, imode, omode>>,
     type  |-> method]


(***************************************************************************)
(* Nodes, entries and the lists the pass keeps.  An entry of env.entries   *)
(* is [has, low_word, high_word]: has is FALSE for a NULL pointer, a word  *)
(* 0 is NULL.  env.phis is the Phi lists of the blocks as pairs            *)
(* <<block, phi>>, newest first; env.proj_2_block is a set of pairs.       *)
(***************************************************************************)
NoEntry == [has |-> FALSE, low_word |-> 0, high_word |-> 0]

last_node(L) == Len(L.nodes)

\* a new node of the graph; it is last_node of the result
new_ir_node(L, nd) ==
    [L EXCEPT !.nodes = Append(@, nd), !.link = Append(@, 0)]

get_irg_no_mem(L) == CHOOSE n \in 1..Len(L.nodes) : L.nodes[n].op = "NoMem"

get_irg_args(L) ==
    CHOOSE n \in 1..Len(L.nodes) :
        L.nodes[n].op = "Proj" /\ L.nodes[n].sym = "T_args"

set_entry(L, node, low, high) ==
    [L EXCEPT !.lenv.entries[node] =
                 [has |-> TRUE, low_word |-> low, high_word |-> high]]

pdeq_putr(L, node) == [L EXCEPT !.lenv.waitq = Append(@, node)]

mark_irn_visited(L, node) == [L EXCEPT !.lenv.visited = @ \cup {node}]

add_Block_phi(L, block, phi) ==
    [L EXCEPT !.lenv.phis = <<<<block, phi>>>> \o @]

get_Block_phis(L, block) ==
    LET mine == SelectSeq(L.lenv.phis, LAMBDA e : e[1] = block)
    IN  [i \in 1..Len(mine) |-> mine[i][2]]

\* a variant that compares the two modes only
cmp_modes_only(e1, e2) ==
    IF e1.imode = e2.imode /\ e1.omode = e2.omode THEN 0 ELSE 1

\* cmp_op_mode: the differences of the three pointers, or-ed; it is 0 for
\* the same opcode, input mode and output mode and is only tested for 0
cmp_op_mode(e1, e2) ==
    IF e1.op = e2.op /\ e1.imode = e2.imode /\ e1.omode = e2.omode THEN 0
    ELSE 1

\* get_intrinsic_address: the SymConst of the emulation function, which is
\* created on first use
get_intrinsic_address(L, method, op, imode, omode) ==
    LET key   == [op |-> op, imode |-> imode, omode |-> omode, ent |-> 0]
        known == {e \in L.irp.intrinsic_fkt : cmp_op_mode(e, key) = 0}
        ent   == IF known # {} THEN (CHOOSE e \in known : TRUE).ent
                 ELSE Len(L.irp.entities) + 1
        L1    == IF known # {} THEN L
                 ELSE [L EXCEPT
                         !.irp.entities =
                             Append(@, def_create_intrinsic_fkt(
                                           method, op, imode, omode)),
                         !.irp.intrinsic_fkt =
                             @ \cup {[op |-> op, imode |-> imode,
                                      omode |-> omode, ent |-> ent]}]
        sb    == L.nodes[CHOOSE n \in 1..Len(L.nodes) :
                             L.nodes[n].op = "Start"].blk
    IN  new_ir_node(L1, MkNode("SymConst", "P", sb, <<>>, ent, "addr_ent",
                               FALSE, 0))

\* a variant that leaves the Phis of the block as they are
patch_no_phis(L, phis, arity, nr) == L

\* add_block_cf_input_nr: one more control flow input; every Phi of the
\* block list gets a copy of its input nr
RECURSIVE patch_phis(_, _, _, _)
patch_phis(L, phis, arity, nr) ==
    IF phis = <<>> THEN L
    ELSE LET phi == Head(phis)
             in  == [i \in 1..arity |-> L.nodes[phi].ins[i]]
         IN  patch_phis(set_irn_in(L, phi, Append(in, in[nr])),
                        Tail(phis), arity, nr)

add_block_cf_input_nr(L, block, nr, cf) ==
    LET arity == Len(L.nodes[block].ins)
        L1    == set_irn_in(L, block, Append(L.nodes[block].ins, cf))
    IN  patch_phis(L1, get_Block_phis(L, block), arity, nr)

add_block_cf_input(L, block, tmpl, cf) ==
    LET in    == L.nodes[block].ins
        found == {i \in 1..Len(in) : in[i] = tmpl}
    IN  IF found = {} THEN [L EXCEPT !.panic = "assert(i < arity)"]
        ELSE add_block_cf_input_nr(
                 L, block, CHOOSE i \in found : \A j \in found : i <= j, cf)

\* the operational mode of a node
get_irn_op_mode(L, node) ==
    LET n == L.nodes[node]
    IN  CASE n.op = "Load" -> n.sym
          [] n.op = "Store" -> L.nodes[n.ins[3]].mode
          [] n.op \in {"DivMod", "Div", "Mod"} -> L.nodes[n.ins[2]].mode
          [] n.op = "Cmp" -> L.nodes[n.ins[1]].mode
          [] OTHER -> n.mode

\* prepare_links: the post callback of the first walk
prepare_links(L, node) ==
    LET n    == L.nodes[node]
        mode == get_irn_op_mode(L, node)
        env  == L.lenv
        wide == IF node <= Len(env.entries) THEN env.entries
                ELSE env.entries \o
                     [i \in 1..((node - 1) + ((node - 1) \div 8)
                                - Len(env.entries)) |-> NoEntry]
        L1   == IF is_high(env, mode)
                THEN [L EXCEPT
                        !.lenv.entries =
                            [wide EXCEPT ![node] =
                                [NoEntry EXCEPT !.has = TRUE]],
                        !.lenv.flags = @ \cup {"MUST_BE_LOWERED"}]
                ELSE IF n.op = "Conv" /\ is_high(env, L.nodes[n.ins[1]].mode)
                THEN [L EXCEPT !.lenv.flags = @ \cup {"MUST_BE_LOWERED"}]
                ELSE L
    IN  IF ~is_high(env, mode) /\ n.op = "Conv" THEN L1
        ELSE IF n.op = "Proj"
        THEN LET pred == n.ins[1]
             IN  [L1 EXCEPT !.link[node] = L.link[pred],
                            !.link[pred] = node]
        ELSE IF n.op = "Phi" THEN add_Block_phi(L1, n.blk, node)
        ELSE IF n.op = "Block"
        THEN [L1 EXCEPT !.lenv.proj_2_block =
                 {e \in @ : ~\E i \in 1..Len(n.ins) : e[1] = n.ins[i]
                                /\ L.nodes[n.ins[i]].op = "Proj"}
                 \cup {<<n.ins[i], node>> : i \in
                          {j \in 1..Len(n.ins) :
                              L.nodes[n.ins[j]].op = "Proj"}}]
        ELSE L1


(***************************************************************************)
(* The lowering functions.  mode is the mode of the high word that         *)
(* lower_ops hands over: WS for a signed doubleword node, WU otherwise.    *)
(***************************************************************************)
get_irg_start_block(L) ==
    L.nodes[CHOOSE n \in 1..Len(L.nodes) : L.nodes[n].op = "Start"].blk

get_irg_type(L) == L.irp.irgs[L.lenv.i].ent

set_entity_type(L, mtp) == [L EXCEPT !.irp.irgs[L.lenv.i].ent = mtp]

\* a conversion that takes every mode for an unsigned one
tarval_convert_unsigned(tv, bits, sign) == tv % (2 ^ bits)

\* tarval_convert_to an integer mode of the given size
tarval_convert_to(tv, bits, sign) ==
    LET m == tv % (2 ^ bits)
    IN  IF sign /\ m >= 2 ^ (bits - 1) THEN m - 2 ^ bits ELSE m

\* lower_Const: the low word unsigned, the high word shifted down
lower_Const(L, node, mode) ==
    LET env  == L.lenv
        tv   == L.nodes[node].val
        sb   == get_irg_start_block(L)
        tv_l == tarval_convert_to(tv, env.tv_mode_bits, FALSE)
        tv_h == tarval_convert_to(tv \div (2 ^ env.tv_mode_bits),
                                  env.tv_mode_bits, mode = env.low_signed)
        L1   == new_ir_node(L, MkNode("Const", env.low_unsigned, sb, <<>>,
                                      tv_l, "", FALSE, 0))
        low  == last_node(L1)
        L2   == new_ir_node(L1, MkNode("Const", mode, sb, <<>>, tv_h, "",
                                       FALSE, 0))
    IN  set_entry(L2, node, low, last_node(L2))

\* the four arguments of the intrinsic Call of a binary operation
\* the inputs with the words of each operand the other way round
binop_in_high_first(left, right) ==
    <<left.high_word, left.low_word, right.high_word, right.low_word>>

binop_in(left, right) ==
    <<left.low_word, left.high_word, right.low_word, right.high_word>>

\* lower_Binop: Add, Sub and Mul become a Call of the emulation function
lower_Binop(L, node, mode) ==
    LET env   == L.lenv
        n     == L.nodes[node]
        left  == env.entries[n.ins[1]]
        right == env.entries[n.ins[2]]
        in    == binop_in(left, right)
        mtp   == IF mode = env.low_signed THEN L.irp.binop_tp_s
                 ELSE L.irp.binop_tp_u
        L1    == get_intrinsic_address(L, mtp, n.op, mode, mode)
        addr  == last_node(L1)
        L2    == new_ir_node(L1, MkNode("Call", "T", n.blk,
                                        <<get_irg_no_mem(L), addr>> \o in,
                                        mtp, "", n.pin, 0))
        call  == last_node(L2)
        L3    == new_ir_node(L2, MkNode("Proj", "T", n.blk, <<call>>, 0,
                                        "T_result", FALSE, 0))
        irn   == last_node(L3)
        L4    == new_ir_node(L3, MkNode("Proj", env.low_unsigned, n.blk,
                                        <<irn>>, 0, "", FALSE, 0))
        L5    == new_ir_node(L4, MkNode("Proj", mode, n.blk, <<irn>>, 1,
                                        "", FALSE, 0))
    IN  IF ~left.has THEN [L EXCEPT !.panic = "assert(entry)"]
        ELSE IF left.low_word = 0 THEN pdeq_putr(L, node)
        ELSE IF ~right.has THEN [L EXCEPT !.panic = "assert(entry)"]
        ELSE IF right.low_word = 0 THEN pdeq_putr(L, node)
        ELSE set_entry(L5, node, last_node(L4), last_node(L5))

\* the first loop of lower_Phi: the inputs of the two Phis that exist are
\* set as far as the pairs of the predecessors are there
RECURSIVE lower_Phi_preds(_, _, _)
lower_Phi_preds(L, phi, i) ==
    LET env  == L.lenv
        pred == L.nodes[phi].ins[i]
        phil == env.entries[phi].low_word
        phih == env.entries[phi].high_word
    IN  IF i > Len(L.nodes[phi].ins) THEN [L |-> L, done |-> TRUE]
        ELSE IF ~env.entries[pred].has
        THEN [L |-> [L EXCEPT !.panic = "NULL entry read"], done |-> FALSE]
        ELSE IF env.entries[pred].low_word = 0
        THEN [L |-> pdeq_putr(L, phi), done |-> FALSE]
        ELSE lower_Phi_preds(
                 [L EXCEPT
                     !.nodes[phil].ins[i] = env.entries[pred].low_word,
                     !.nodes[phih].ins[i] = env.entries[pred].high_word],
                 phi, i + 1)

\* lower_Phi: two Phis with Dummy inputs where a pair is missing
lower_Phi(L, phi, mode) ==
    LET first == IF L.lenv.entries[phi].low_word # 0
                 THEN lower_Phi_preds(L, phi, 1)
                 ELSE [L |-> L, done |-> TRUE]
        La    == first.L
        env   == La.lenv
        n     == La.nodes[phi]
        sb    == get_irg_start_block(La)
        L1    == new_ir_node(La, MkNode("Dummy", env.low_unsigned, sb, <<>>,
                                        0, "", FALSE, 0))
        unk_l == last_node(L1)
        L2    == new_ir_node(L1, MkNode("Dummy", mode, sb, <<>>, 0, "",
                                        FALSE, 0))
        unk_h == last_node(L2)
        ready == [i \in 1..Len(n.ins) |->
                     env.entries[n.ins[i]].low_word # 0]
        inl   == [i \in 1..Len(n.ins) |->
                     IF ready[i] THEN env.entries[n.ins[i]].low_word
                     ELSE unk_l]
        inh   == [i \in 1..Len(n.ins) |->
                     IF ready[i] THEN env.entries[n.ins[i]].high_word
                     ELSE unk_h]
        enq   == \E i \in 1..Len(n.ins) : ~ready[i]
        L3    == new_ir_node(L2, MkNode("Phi", env.low_unsigned, n.blk, inl,
                                        0, "", FALSE, 0))
        phi_l == last_node(L3)
        L4    == new_ir_node(L3, MkNode("Phi", mode, n.blk, inh, 0, "",
                                        FALSE, 0))
        phi_h == last_node(L4)
        L5    == add_Block_phi(add_Block_phi(
                     set_entry(L4, phi, phi_l, phi_h), n.blk, phi_l),
                     n.blk, phi_h)
    IN  IF ~first.done THEN La
        ELSE IF \E i \in 1..Len(n.ins) : ~env.entries[n.ins[i]].has
        THEN [La EXCEPT !.panic = "NULL entry read"]
        ELSE IF enq THEN pdeq_putr(L5, phi)
        ELSE L5


\* the nodes on the link chain that starts at node n
RECURSIVE link_chain(_, _)
link_chain(L, n) == IF n = 0 THEN <<>> ELSE <<n>> \o link_chain(L, L.link[n])

\* the inputs of the lowered Return: a pair for every result with an entry
RECURSIVE lowered_ress(_, _)
lowered_ress(L, preds) ==
    IF preds = <<>> THEN <<>>
    ELSE LET entry == L.lenv.entries[Head(preds)]
         IN  (IF entry.has THEN <<entry.low_word, entry.high_word>>
              ELSE <<Head(preds)>>)
             \o lowered_ress(L, Tail(preds))

\* lower_Return
lower_Return(L, node) ==
    LET env   == L.lenv
        in    == L.nodes[node].ins
        ress  == Tail(in)
        high  == {i \in 1..Len(ress) :
                     is_high(env, get_irn_op_mode(L, ress[i]))}
        wait  == \E i \in high : env.entries[ress[i]].low_word = 0
        low   == lower_mtp(L.irp, env, get_irg_type(L))
        L1    == set_entity_type([L EXCEPT !.irp = low.P], low.res)
        first == IF high = {} THEN 0
                 ELSE CHOOSE i \in high :
                          /\ \/ ~env.entries[ress[i]].has
                             \/ env.entries[ress[i]].low_word = 0
                          /\ \A j \in high :
                                 (\/ ~env.entries[ress[j]].has
                                  \/ env.entries[ress[j]].low_word = 0)
                                     => i <= j
    IN  IF wait /\ ~env.entries[ress[first]].has
        THEN [L EXCEPT !.panic = "NULL entry read"]
        ELSE IF wait THEN pdeq_putr(L, node)
        ELSE IF high = {} THEN L
        ELSE set_irn_in(L1, node, <<in[1]>> \o lowered_ress(L, ress))

\* a variant that counts every parameter as one
RECURSIVE new_projs_by_one(_, _, _)
new_projs_by_one(env, params, j) ==
    IF params = <<>> THEN <<>>
    ELSE <<j>> \o new_projs_by_one(env, Tail(params), j + 1)

\* new_projs of lower_Start: the new number of every parameter (from 0)
RECURSIVE new_projs(_, _, _)
new_projs(env, params, j) ==
    IF params = <<>> THEN <<>>
    ELSE <<j>> \o new_projs(env, Tail(params),
                            IF is_high(env, Head(params)) THEN j + 2
                            ELSE j + 1)

\* the loop of lower_Start over the Projs linked to the Start node
RECURSIVE lower_Start_projs(_, _, _)
lower_Start_projs(L, projs, np) ==
    IF projs = <<>> \/ L.panic # "" THEN L
    ELSE LET env     == L.lenv
             proj    == Head(projs)
             p       == L.nodes[proj]
             args    == get_irg_args(L)
             L0      == mark_irn_visited(L, proj)
             proj_nr == p.val
             L1      == [L0 EXCEPT !.nodes[proj].val = np[proj_nr + 1]]
             mode    == IF p.mode = env.high_signed THEN env.low_signed
                        ELSE env.low_unsigned
             L2      == new_ir_node(L1, MkNode("Proj", env.low_unsigned,
                                               p.blk, <<args>>,
                                               np[proj_nr + 1], "", FALSE,
                                               0))
             L3      == new_ir_node(L2, MkNode("Proj", mode, p.blk,
                                               <<args>>,
                                               np[proj_nr + 1] + 1, "",
                                               FALSE, 0))
             L4      == set_entry(L3, proj, last_node(L2), last_node(L3))
         IN  IF p.ins[1] # args
             THEN lower_Start_projs(L0, Tail(projs), np)
             ELSE IF proj_nr + 1 > Len(np)
             THEN [L0 EXCEPT !.panic = "new_projs read out of bounds"]
             ELSE IF env.entries[proj].has
             THEN lower_Start_projs(L4, Tail(projs), np)
             ELSE lower_Start_projs(L1, Tail(projs), np)

\* lower_Start: the parameters
lower_Start(L, node) ==
    LET env    == L.lenv
        tp     == get_irg_type(L)
        mtp    == IF is_lowered_type(L.irp, tp)
                  THEN get_associated_type(L.irp, tp) ELSE tp
        params == L.irp.types[mtp].params
        np     == new_projs(env, params, 0)
        low    == lower_mtp(L.irp, env, mtp)
        L1     == set_entity_type([L EXCEPT !.irp = low.P], low.res)
    IN  IF params = <<>> THEN L
        ELSE IF \A i \in 1..Len(params) : ~is_high(env, params[i]) THEN L
        ELSE lower_Start_projs(L1, link_chain(L, L.link[node]), np)

\* lower_ASM: a doubleword input or result is a panic
\* a lower_ASM that lets every ASM node pass
lower_ASM_passes(L, asmn) == L

lower_ASM(L, asmn) ==
    LET env   == L.lenv
        in    == L.nodes[asmn].ins
        projs == link_chain(L, L.link[asmn])
    IN  IF \/ \E i \in 1..Len(in) : is_high(env, L.nodes[in[i]].mode)
           \/ \E i \in 1..Len(projs) : is_high(env, L.nodes[projs[i]].mode)
        THEN [L EXCEPT !.panic = "lowering ASM unimplemented"]
        ELSE L

always_lower(code) ==
    code \in {"ASM", "Proj", "Start", "Call", "Return", "Cond", "Conv",
              "Sel"}


\* several new nodes in the order of their creation
RECURSIVE new_ir_nodes(_, _)
new_ir_nodes(L, nds) ==
    IF nds = <<>> THEN L
    ELSE new_ir_nodes(new_ir_node(L, Head(nds)), Tail(nds))

new_r(op, mode, blk, ins, val, sym) ==
    MkNode(op, mode, blk, ins, val, sym, FALSE, 0)

\* a variant that keeps the relation as it is
with_Eq(pnc) == pnc

\* pnc & ~pn_Cmp_Eq
without_Eq(pnc) ==
    CASE pnc = "Le" -> "Lt"
      [] pnc = "Ge" -> "Gt"
      [] pnc = "Eq" -> "False"
      [] OTHER -> pnc

pmap_find(L, proj) ==
    IF \E e \in L.lenv.proj_2_block : e[1] = proj
    THEN (CHOOSE e \in L.lenv.proj_2_block : e[1] = proj)[2]
    ELSE 0

mark_all_visited(L, ns) == [L EXCEPT !.lenv.visited = @ \cup ns]

\* lower_Cond, x == 0 and x != 0: Or of the two words against 0
lower_Cond_null(L, node, lentry, pnc) ==
    LET b     == Len(L.nodes)
        block == L.nodes[node].blk
        WU    == L.lenv.low_unsigned
        L1    == new_ir_nodes(L, <<
                    new_r("Conv", WU, block, <<lentry.low_word>>, 0, ""),
                    new_r("Conv", WU, block, <<lentry.high_word>>, 0, ""),
                    new_r("Or", WU, block, <<b + 1, b + 2>>, 0, ""),
                    new_r("Const", WU, get_irg_start_block(L), <<>>, 0, ""),
                    new_r("Cmp", "T", block, <<b + 3, b + 4>>, 0, ""),
                    new_r("Proj", "b", block, <<b + 5>>, 0, pnc)>>)
    IN  [L1 EXCEPT !.nodes[node].ins[1] = b + 6]

\* lower_Cond, a == b: high words equal and low words equal
lower_Cond_Eq(L, node, lentry, rentry, projT, projF) ==
    LET b       == Len(L.nodes)
        block   == L.nodes[node].blk
        dst_blk == pmap_find(L, projF)
        L1      == new_ir_nodes(L, <<
                      new_r("Cmp", "T", block,
                            <<lentry.high_word, rentry.high_word>>, 0, ""),
                      new_r("Proj", "b", block, <<b + 1>>, 0, "Eq"),
                      new_r("Cond", "T", block, <<b + 2>>, 0, ""),
                      new_r("Proj", "X", block, <<b + 3>>, 0, ""),
                      new_r("Proj", "X", block, <<b + 3>>, 1, ""),
                      MkNode("Block", "BB", 0, <<b + 5>>, 0, "", TRUE, 0),
                      new_r("Cmp", "T", b + 6,
                            <<lentry.low_word, rentry.low_word>>, 0, ""),
                      new_r("Proj", "b", b + 6, <<b + 7>>, 0, "Eq"),
                      new_r("Cond", "T", b + 6, <<b + 8>>, 0, ""),
                      new_r("Proj", "X", b + 6, <<b + 9>>, 0, ""),
                      new_r("Proj", "X", b + 6, <<b + 9>>, 1, "")>>)
        L2      == mark_all_visited(L1, {b + 4, b + 5, b + 10, b + 11})
        L3      == exchange(L2, projF, b + 4)
        L4      == add_block_cf_input(L3, dst_blk, b + 4, b + 10)
    IN  IF dst_blk = 0 THEN [L EXCEPT !.panic = "assert(entry)"]
        ELSE exchange(L4, projT, b + 11)

\* lower_Cond, a != b: high words differ or low words differ
lower_Cond_Lg(L, node, lentry, rentry, projT, projF) ==
    LET b       == Len(L.nodes)
        block   == L.nodes[node].blk
        dst_blk == pmap_find(L, projT)
        L1      == new_ir_nodes(L, <<
                      new_r("Cmp", "T", block,
                            <<lentry.high_word, rentry.high_word>>, 0, ""),
                      new_r("Proj", "b", block, <<b + 1>>, 0, "Lg"),
                      new_r("Cond", "T", block, <<b + 2>>, 0, ""),
                      new_r("Proj", "X", block, <<b + 3>>, 1, ""),
                      new_r("Proj", "X", block, <<b + 3>>, 0, ""),
                      MkNode("Block", "BB", 0, <<b + 5>>, 0, "", TRUE, 0),
                      new_r("Cmp", "T", b + 6,
                            <<lentry.low_word, rentry.low_word>>, 0, ""),
                      new_r("Proj", "b", b + 6, <<b + 7>>, 0, "Lg"),
                      new_r("Cond", "T", b + 6, <<b + 8>>, 0, ""),
                      new_r("Proj", "X", b + 6, <<b + 9>>, 1, ""),
                      new_r("Proj", "X", b + 6, <<b + 9>>, 0, "")>>)
        L2      == mark_all_visited(L1, {b + 4, b + 5, b + 10, b + 11})
        L3      == exchange(L2, projT, b + 4)
        L4      == add_block_cf_input(L3, dst_blk, b + 4, b + 10)
    IN  IF dst_blk = 0 THEN [L EXCEPT !.panic = "assert(entry)"]
        ELSE exchange(L4, projF, b + 11)

\* lower_Cond, a rel b: a_h REL b_h or (a_h == b_h and a_l rel b_l)
lower_Cond_rel(L, node, lentry, rentry, projT, projF, pnc) ==
    LET b     == Len(L.nodes)
        block == L.nodes[node].blk
        dstT  == pmap_find(L, projT)
        dstF  == pmap_find(L, projF)
        L1    == new_ir_nodes(L, <<
                    new_r("Cmp", "T", block,
                          <<lentry.high_word, rentry.high_word>>, 0, ""),
                    new_r("Proj", "b", block, <<b + 1>>, 0, without_Eq(pnc)),
                    new_r("Cond", "T", block, <<b + 2>>, 0, ""),
                    new_r("Proj", "X", block, <<b + 3>>, 1, ""),
                    new_r("Proj", "X", block, <<b + 3>>, 0, ""),
                    MkNode("Block", "BB", 0, <<b + 5>>, 0, "", TRUE, 0),
                    new_r("Proj", "b", block, <<b + 1>>, 0, "Eq"),
                    new_r("Cond", "T", b + 6, <<b + 7>>, 0, ""),
                    new_r("Proj", "X", b + 6, <<b + 8>>, 0, ""),
                    new_r("Proj", "X", b + 6, <<b + 8>>, 1, ""),
                    MkNode("Block", "BB", 0, <<b + 10>>, 0, "", TRUE, 0),
                    new_r("Cmp", "T", b + 11,
                          <<lentry.low_word, rentry.low_word>>, 0, ""),
                    new_r("Proj", "b", b + 11, <<b + 12>>, 0, pnc),
                    new_r("Cond", "T", b + 11, <<b + 13>>, 0, ""),
                    new_r("Proj", "X", b + 11, <<b + 14>>, 1, ""),
                    new_r("Proj", "X", b + 11, <<b + 14>>, 0, "")>>)
        L2    == mark_all_visited(L1, {b + 4, b + 5, b + 9, b + 10, b + 15,
                                       b + 16})
        L3    == exchange(exchange(L2, projT, b + 4), projF, b + 9)
        L4    == add_block_cf_input(L3, dstT, b + 4, b + 15)
    IN  IF dstT = 0 \/ dstF = 0 THEN [L EXCEPT !.panic = "assert(entry)"]
        ELSE IF L4.panic # "" THEN L4
        ELSE add_block_cf_input(L4, dstF, b + 9, b + 16)


\* lower_Cond: a Cond on a doubleword compare becomes two or three Conds
lower_Cond(L, node) ==
    LET env    == L.lenv
        sel    == L.nodes[node].ins[1]
        cmp    == L.nodes[sel].ins[1]
        left   == L.nodes[cmp].ins[1]
        right  == L.nodes[cmp].ins[2]
        lentry == env.entries[left]
        rentry == env.entries[right]
        projs  == link_chain(L, L.link[node])
        projT  == CHOOSE p \in Range(projs) : L.nodes[p].val = 1
        projF  == CHOOSE p \in Range(projs) : L.nodes[p].val = 0
        pnc    == L.nodes[sel].sym
        L1     == mark_all_visited(L, Range(projs))
        built  == IF pnc = "Eq"
                  THEN lower_Cond_Eq(L1, node, lentry, rentry, projT, projF)
                  ELSE IF pnc = "Lg"
                  THEN lower_Cond_Lg(L1, node, lentry, rentry, projT, projF)
                  ELSE lower_Cond_rel(L1, node, lentry, rentry, projT,
                                      projF, pnc)
    IN  IF L.nodes[sel].mode = "b"
        THEN IF L.nodes[sel].op # "Proj" THEN L
             ELSE IF L.nodes[cmp].op # "Cmp" THEN L
             ELSE IF ~lentry.has THEN L
             ELSE IF ~rentry.has
             THEN [L EXCEPT !.panic = "assert(rentry)"]
             ELSE IF lentry.low_word = 0 \/ rentry.low_word = 0
             THEN pdeq_putr(L, node)
             ELSE IF /\ L.nodes[right].op = "Const"
                     /\ L.nodes[right].val = 0
                     /\ pnc \in {"Eq", "Lg"}
             THEN lower_Cond_null(L1, node, lentry, pnc)
             ELSE IF built.panic # "" THEN built
             ELSE [built EXCEPT !.lenv.flags = @ \cup {"CF_CHANGED"}]
        ELSE IF env.entries[sel].has
        THEN IF env.entries[sel].low_word = 0 THEN pdeq_putr(L, node)
             ELSE [L EXCEPT !.nodes[node].ins[1] = env.entries[sel].low_word]
        ELSE L

\* lower_boolean_Proj_Cmp: [L, res], res 0 while the operands are not ready
lower_boolean_Proj_Cmp(L, proj, cmp) ==
    LET env == L.lenv
        l   == env.entries[L.nodes[cmp].ins[1]]
        r   == env.entries[L.nodes[cmp].ins[2]]
        pnc == L.nodes[proj].sym
        blk == L.nodes[cmp].blk
        b   == Len(L.nodes)
        two == <<new_r("Cmp", "T", blk, <<l.low_word, r.low_word>>, 0, ""),
                 new_r("Cmp", "T", blk, <<l.high_word, r.high_word>>, 0,
                       "")>>
        low  == b + 1
        high == b + 2
        simple(op) ==
            <<new_r("Proj", "b", blk, <<low>>, 0, pnc),
              new_r("Proj", "b", blk, <<high>>, 0, pnc),
              new_r(op, "b", blk, <<b + 3, b + 4>>, 0, "")>>
        rel  ==
            <<new_r("Proj", "b", blk, <<low>>, 0, pnc),
              new_r("Proj", "b", blk, <<high>>, 0, "Eq"),
              new_r("And", "b", blk, <<b + 3, b + 4>>, 0, ""),
              new_r("Proj", "b", blk, <<high>>, 0, without_Eq(pnc)),
              new_r("Or", "b", blk, <<b + 6, b + 5>>, 0, "")>>
        more == IF pnc = "Eq" THEN simple("And")
                ELSE IF pnc = "Lg" THEN simple("Or")
                ELSE rel
        L1   == new_ir_nodes(L, two \o more)
    IN  IF ~l.has \/ (l.low_word # 0 /\ ~r.has)
        THEN [L |-> [L EXCEPT !.panic = "NULL entry read"], res |-> 0]
        ELSE IF l.low_word = 0 \/ r.low_word = 0 THEN [L |-> L, res |-> 0]
        ELSE [L |-> L1, res |-> last_node(L1)]

(***************************************************************************)
(* Load and Store.  A Load is [mem, adr] with the loaded mode in sym, a    *)
(* Store is [mem, adr, value]; the Projs of both carry the name of their   *)
(* number in sym: "M", "X_regular", "X_except" and "res".                  *)
(***************************************************************************)
\* a variant that steps by the size of the whole doubleword
split_address_doubleword(L, node) ==
    LET env == L.lenv
        n   == L.nodes[node]
        adr == n.ins[2]
        b   == Len(L.nodes)
        L1  == new_ir_nodes(L, <<
                  new_r("Const", env.low_unsigned, get_irg_start_block(L),
                        <<>>, 2 * env.tv_mode_bytes, ""),
                  new_r("Add", L.nodes[adr].mode, n.blk, <<adr, b + 1>>, 0,
                        "")>>)
    IN  IF L.irp.param.little_endian
        THEN [L |-> L1, low |-> adr, high |-> b + 2]
        ELSE [L |-> L1, low |-> b + 2, high |-> adr]

\* the addresses of the two words: [L, low, high]
split_address(L, node) ==
    LET env == L.lenv
        n   == L.nodes[node]
        adr == n.ins[2]
        b   == Len(L.nodes)
        L1  == new_ir_nodes(L, <<
                  new_r("Const", env.low_unsigned, get_irg_start_block(L),
                        <<>>, env.tv_mode_bytes, ""),
                  new_r("Add", L.nodes[adr].mode, n.blk, <<adr, b + 1>>, 0,
                        "")>>)
    IN  IF L.irp.param.little_endian
        THEN [L |-> L1, low |-> adr, high |-> b + 2]
        ELSE [L |-> L1, low |-> b + 2, high |-> adr]

\* a variant that leaves the memory Proj at the first Load
RECURSIVE lower_Load_projs_first(_, _, _, _, _)
lower_Load_projs_first(L, projs, low, high, mode) ==
    IF projs = <<>> \/ L.panic # "" THEN L
    ELSE LET proj == Head(projs)
             p    == L.nodes[proj]
             b    == Len(L.nodes)
             L1   == new_ir_nodes(L, <<
                        new_r("Proj", L.lenv.low_unsigned,
                              L.nodes[low].blk, <<low>>, 0, "res"),
                        new_r("Proj", mode, L.nodes[high].blk, <<high>>, 0,
                              "res")>>)
             done == CASE p.sym = "M" -> set_irn_in(L, proj, <<low>>)
                       [] p.sym = "X_except" -> set_irn_in(L, proj, <<low>>)
                       [] p.sym = "res" -> set_entry(L1, proj, b + 1, b + 2)
                       [] OTHER ->
                            [L EXCEPT !.panic = "unexpected Proj number"]
         IN  lower_Load_projs_first(IF done.panic # "" THEN done
                                    ELSE mark_irn_visited(done, proj),
                                    Tail(projs), low, high, mode)

\* the loop of lower_Load over the Projs linked to the Load
RECURSIVE lower_Load_projs(_, _, _, _, _)
lower_Load_projs(L, projs, low, high, mode) ==
    IF projs = <<>> \/ L.panic # "" THEN L
    ELSE LET proj == Head(projs)
             p    == L.nodes[proj]
             b    == Len(L.nodes)
             L1   == new_ir_nodes(L, <<
                        new_r("Proj", L.lenv.low_unsigned,
                              L.nodes[low].blk, <<low>>, 0, "res"),
                        new_r("Proj", mode, L.nodes[high].blk, <<high>>, 0,
                              "res")>>)
             done == CASE p.sym = "M" -> set_irn_in(L, proj, <<high>>)
                       [] p.sym = "X_except" -> set_irn_in(L, proj, <<low>>)
                       [] p.sym = "res" -> set_entry(L1, proj, b + 1, b + 2)
                       [] OTHER ->
                            [L EXCEPT !.panic = "unexpected Proj number"]
         IN  lower_Load_projs(IF done.panic # "" THEN done
                              ELSE mark_irn_visited(done, proj),
                              Tail(projs), low, high, mode)

\* lower_Load: a Load of the low word, then a Load of the high word
lower_Load(L, node, mode) ==
    LET env  == L.lenv
        n    == L.nodes[node]
        adrs == split_address(L, node)
        b    == Len(adrs.L.nodes)
        L1   == new_ir_nodes(adrs.L, <<
                   MkNode("Load", "T", n.blk, <<n.ins[1], adrs.low>>, 0,
                          env.low_unsigned, n.pin, 0),
                   new_r("Proj", "M", n.blk, <<b + 1>>, 0, "M"),
                   MkNode("Load", "T", n.blk, <<b + 2, adrs.high>>, 0, mode,
                          n.pin, 0)>>)
        L2   == set_entry(L1, node, b + 1, b + 3)
    IN  lower_Load_projs(L2, link_chain(L, L.link[node]), b + 1, b + 3, mode)

\* the loop of lower_Store over the Projs linked to the Store
RECURSIVE lower_Store_projs(_, _, _, _)
lower_Store_projs(L, projs, low, high) ==
    IF projs = <<>> \/ L.panic # "" THEN L
    ELSE LET proj == Head(projs)
             p    == L.nodes[proj]
             done == CASE p.sym = "M" -> set_irn_in(L, proj, <<high>>)
                       [] p.sym = "X_except" -> set_irn_in(L, proj, <<low>>)
                       [] OTHER ->
                            [L EXCEPT !.panic = "unexpected Proj number"]
         IN  lower_Store_projs(IF done.panic # "" THEN done
                               ELSE mark_irn_visited(done, proj),
                               Tail(projs), low, high)

\* lower_Store: a Store of the low word, then a Store of the high word
lower_Store(L, node) ==
    LET env   == L.lenv
        n     == L.nodes[node]
        entry == env.entries[n.ins[3]]
        adrs  == split_address(L, node)
        b     == Len(adrs.L.nodes)
        L1    == new_ir_nodes(adrs.L, <<
                    MkNode("Store", "T", n.blk,
                           <<n.ins[1], adrs.low, entry.low_word>>, 0, "",
                           n.pin, 0),
                    new_r("Proj", "M", n.blk, <<b + 1>>, 0, "M"),
                    MkNode("Store", "T", n.blk,
                           <<b + 2, adrs.high, entry.high_word>>, 0, "",
                           n.pin, 0)>>)
        L2    == set_entry(L1, node, b + 1, b + 3)
    IN  IF ~entry.has THEN [L EXCEPT !.panic = "assert(entry)"]
        ELSE IF entry.low_word = 0 THEN pdeq_putr(L, node)
        ELSE lower_Store_projs(L2, link_chain(L, L.link[node]), b + 1, b + 3)


(***************************************************************************)
(* The shifts.  mode is the mode of the high word; its size is the size of *)
(* a word, env.tv_mode_bits.                                               *)
(***************************************************************************)
\* the Call of an emulation function and the pair of its two results
call_intrinsic(L, node, mode, mtp, op, in) ==
    LET n  == L.nodes[node]
        L1 == get_intrinsic_address(L, mtp, op, mode, mode)
        b  == Len(L1.nodes)
        L2 == new_ir_nodes(L1, <<
                 MkNode("Call", "T", n.blk, <<get_irg_no_mem(L), b>> \o in,
                        mtp, "", n.pin, 0),
                 new_r("Proj", "T", n.blk, <<b + 1>>, 0, "T_result"),
                 new_r("Proj", L.lenv.low_unsigned, n.blk, <<b + 2>>, 0, ""),
                 new_r("Proj", mode, n.blk, <<b + 2>>, 1, "")>>)
    IN  set_entry(L2, node, b + 3, b + 4)

\* lower_Shiftop: the general shift is a Call; the count stays as it is
lower_Shiftop(L, node, mode) ==
    LET env   == L.lenv
        n     == L.nodes[node]
        entry == env.entries[n.ins[1]]
        mtp   == IF mode = env.low_signed THEN L.irp.shiftop_tp_s
                 ELSE L.irp.shiftop_tp_u
    IN  IF ~entry.has THEN [L EXCEPT !.panic = "assert(entry)"]
        ELSE IF entry.low_word = 0 THEN pdeq_putr(L, node)
        ELSE IF is_high(env, L.nodes[n.ins[2]].mode)
        THEN [L EXCEPT !.panic = "assert(shift count is no doubleword)"]
        ELSE call_intrinsic(L, node, mode, mtp, n.op,
                            <<entry.low_word, entry.high_word, n.ins[2]>>)

\* the shift count is a Const that is at least the size of a word
shifts_whole_word(L, node) ==
    LET right == L.nodes[L.nodes[node].ins[2]]
    IN  right.op = "Const" /\ right.val >= L.lenv.tv_mode_bits

\* lower_Shr: the high word shifted into the low word, the high word 0
lower_Shr(L, node, mode) ==
    LET env     == L.lenv
        n       == L.nodes[node]
        WU      == env.low_unsigned
        sb      == get_irg_start_block(L)
        shf_cnt == L.nodes[n.ins[2]].val - env.tv_mode_bits
        high_w  == env.entries[n.ins[1]].high_word
        L1      == IF L.nodes[high_w].mode # WU
                   THEN new_ir_node(L, new_r("Conv", WU, n.blk, <<high_w>>,
                                             0, ""))
                   ELSE L
        left    == IF L.nodes[high_w].mode # WU THEN last_node(L1)
                   ELSE high_w
        L2      == IF shf_cnt > 0
                   THEN new_ir_nodes(L1, <<
                           new_r("Const", WU, sb, <<>>, shf_cnt, ""),
                           new_r("Shr", WU, n.blk,
                                 <<left, Len(L1.nodes) + 1>>, 0, "")>>)
                   ELSE L1
        low     == IF shf_cnt > 0 THEN last_node(L2) ELSE left
        L3      == new_ir_node(L2, new_r("Const", mode, sb, <<>>, 0, ""))
    IN  IF ~shifts_whole_word(L, node) THEN lower_Shiftop(L, node, mode)
        ELSE IF ~env.entries[n.ins[1]].has
        THEN [L EXCEPT !.panic = "NULL entry read"]
        ELSE IF high_w = 0 THEN pdeq_putr(L, node)
        ELSE set_entry(L3, node, low, last_node(L3))

\* lower_Shl: the low word shifted into the high word, the low word 0
lower_Shl(L, node, mode) ==
    LET env     == L.lenv
        n       == L.nodes[node]
        WU      == env.low_unsigned
        sb      == get_irg_start_block(L)
        shf_cnt == L.nodes[n.ins[2]].val - env.tv_mode_bits
        low_w   == env.entries[n.ins[1]].low_word
        L1      == new_ir_node(L, new_r("Conv", mode, n.blk, <<low_w>>, 0,
                                        ""))
        left    == last_node(L1)
        L2      == IF shf_cnt > 0
                   THEN new_ir_nodes(L1, <<
                           new_r("Const", WU, sb, <<>>, shf_cnt, ""),
                           new_r("Shl", mode, n.blk, <<left, left + 1>>, 0,
                                 "")>>)
                   ELSE L1
        high    == IF shf_cnt > 0 THEN last_node(L2) ELSE left
        L3      == new_ir_node(L2, new_r("Const", WU, sb, <<>>, 0, ""))
    IN  IF ~shifts_whole_word(L, node) THEN lower_Shiftop(L, node, mode)
        ELSE IF ~env.entries[n.ins[1]].has
        THEN [L EXCEPT !.panic = "NULL entry read"]
        ELSE IF low_w = 0 THEN pdeq_putr(L, node)
        ELSE set_entry(L3, node, last_node(L3), high)

\* lower_Shrs: the high word shifted into the low word, the high word is
\* the sign of the old high word
lower_Shrs(L, node, mode) ==
    LET env     == L.lenv
        n       == L.nodes[node]
        WU      == env.low_unsigned
        sb      == get_irg_start_block(L)
        shf_cnt == L.nodes[n.ins[2]].val - env.tv_mode_bits
        high_w  == env.entries[n.ins[1]].high_word
        conv    == L.nodes[n.ins[1]].mode # WU
        L1      == IF conv
                   THEN new_ir_node(L, new_r("Conv", WU, n.blk, <<high_w>>,
                                             0, ""))
                   ELSE L
        left_u  == IF conv THEN last_node(L1) ELSE n.ins[1]
        L2      == IF shf_cnt > 0
                   THEN new_ir_nodes(L1, <<
                           new_r("Const", WU, sb, <<>>, shf_cnt, ""),
                           new_r("Shrs", WU, n.blk,
                                 <<left_u, Len(L1.nodes) + 1>>, 0, "")>>)
                   ELSE L1
        low     == IF shf_cnt > 0 THEN last_node(L2) ELSE left_u
        b       == Len(L2.nodes)
        L3      == new_ir_nodes(L2, <<
                      new_r("Conv", WU, n.blk, <<low>>, 0, ""),
                      new_r("Const", WU, sb, <<>>, env.tv_mode_bits - 1, ""),
                      new_r("Shrs", mode, n.blk, <<high_w, b + 2>>, 0, "")>>)
    IN  IF ~shifts_whole_word(L, node) THEN lower_Shiftop(L, node, mode)
        ELSE IF ~env.entries[n.ins[1]].has
        THEN [L EXCEPT !.panic = "NULL entry read"]
        ELSE IF high_w = 0 THEN pdeq_putr(L, node)
        ELSE set_entry(L3, node, b + 1, b + 3)


(***************************************************************************)
(* The operations on the halves, the rotation, Mux, Unknown and Call.  A   *)
(* read through a NULL entry that no assert guards is an abort as well.    *)
(***************************************************************************)
\* lower_Unop: Minus becomes a Call of the emulation function
lower_Unop(L, node, mode) ==
    LET env   == L.lenv
        n     == L.nodes[node]
        entry == env.entries[n.ins[1]]
        mtp   == IF mode = env.low_signed THEN L.irp.unop_tp_s
                 ELSE L.irp.unop_tp_u
    IN  IF ~entry.has THEN [L EXCEPT !.panic = "assert(entry)"]
        ELSE IF entry.low_word = 0 THEN pdeq_putr(L, node)
        ELSE call_intrinsic(L, node, mode, mtp, n.op,
                            <<entry.low_word, entry.high_word>>)

\* lower_Binop_logical: And, Or and Eor work on the two halves
lower_Binop_logical(L, node, mode) ==
    LET env   == L.lenv
        n     == L.nodes[node]
        lop   == env.entries[n.ins[1]]
        rop   == env.entries[n.ins[2]]
        b     == Len(L.nodes)
        L1    == new_ir_nodes(L, <<
                    new_r(n.op, env.low_unsigned, n.blk,
                          <<lop.low_word, rop.low_word>>, 0, ""),
                    new_r(n.op, mode, n.blk,
                          <<lop.high_word, rop.high_word>>, 0, "")>>)
    IN  IF ~lop.has THEN [L EXCEPT !.panic = "assert(entry)"]
        ELSE IF lop.low_word = 0 THEN pdeq_putr(L, node)
        ELSE IF ~rop.has THEN [L EXCEPT !.panic = "assert(entry)"]
        ELSE IF rop.low_word = 0 THEN pdeq_putr(L, node)
        ELSE set_entry(L1, node, b + 1, b + 2)

\* a variant that does not wait for the pair of its operand
lower_Not_unchecked(L, node, mode) ==
    LET env   == L.lenv
        n     == L.nodes[node]
        entry == env.entries[n.ins[1]]
        b     == Len(L.nodes)
        L1    == new_ir_nodes(L, <<
                    new_r("Not", env.low_unsigned, n.blk,
                          <<entry.low_word>>, 0, ""),
                    new_r("Not", mode, n.blk, <<entry.high_word>>, 0, "")>>)
    IN  IF ~entry.has THEN [L EXCEPT !.panic = "assert(entry)"]
        ELSE set_entry(L1, node, b + 1, b + 2)

\* lower_Not: a Not of either half
lower_Not(L, node, mode) ==
    LET env   == L.lenv
        n     == L.nodes[node]
        entry == env.entries[n.ins[1]]
        b     == Len(L.nodes)
        L1    == new_ir_nodes(L, <<
                    new_r("Not", env.low_unsigned, n.blk,
                          <<entry.low_word>>, 0, ""),
                    new_r("Not", mode, n.blk, <<entry.high_word>>, 0, "")>>)
    IN  IF ~entry.has THEN [L EXCEPT !.panic = "assert(entry)"]
        ELSE IF entry.low_word = 0 THEN pdeq_putr(L, node)
        ELSE set_entry(L1, node, b + 1, b + 2)

\* lower_Rotl: a rotation by the size of a word swaps the halves; the pair
\* of the left operand is read as it is
lower_Rotl(L, node, mode) ==
    LET env   == L.lenv
        n     == L.nodes[node]
        right == L.nodes[n.ins[2]]
        left  == env.entries[n.ins[1]]
    IN  IF ~(right.op = "Const" /\ right.val = env.tv_mode_bits)
        THEN [L EXCEPT !.panic = "assert(Rotl by the size of a word)"]
        ELSE IF ~left.has THEN [L EXCEPT !.panic = "NULL entry read"]
        ELSE set_entry(L, node, left.high_word, left.low_word)

\* lower_Mux: a Mux of either half with the selector of the old one
lower_Mux(L, mux, mode) ==
    LET env   == L.lenv
        n     == L.nodes[mux]
        false == env.entries[n.ins[2]]
        true  == env.entries[n.ins[3]]
        b     == Len(L.nodes)
        L1    == new_ir_nodes(L, <<
                    new_r("Mux", env.low_unsigned, n.blk,
                          <<n.ins[1], false.low_word, true.low_word>>, 0,
                          ""),
                    new_r("Mux", mode, n.blk,
                          <<n.ins[1], false.high_word, true.high_word>>, 0,
                          "")>>)
    IN  IF ~true.has THEN [L EXCEPT !.panic = "NULL entry read"]
        ELSE IF true.low_word = 0 THEN pdeq_putr(L, mux)
        ELSE IF ~false.has THEN [L EXCEPT !.panic = "NULL entry read"]
        ELSE IF false.low_word = 0 THEN pdeq_putr(L, mux)
        ELSE set_entry(L1, mux, b + 1, b + 2)

\* lower_Unknown: two Unknowns
lower_Unknown(L, node, mode) ==
    LET sb == get_irg_start_block(L)
        b  == Len(L.nodes)
        L1 == new_ir_nodes(L, <<
                 new_r("Unknown", L.lenv.low_unsigned, sb, <<>>, 0, ""),
                 new_r("Unknown", mode, sb, <<>>, 0, "")>>)
    IN  set_entry(L1, node, b + 1, b + 2)

\* the loop of lower_Call over the Projs linked to the result Proj
RECURSIVE lower_Call_projs(_, _, _, _)
lower_Call_projs(L, projs, results, res_numbers) ==
    IF projs = <<>> \/ L.panic # "" THEN L
    ELSE LET env     == L.lenv
             proj    == Head(projs)
             p       == L.nodes[proj]
             proj_nr == p.val
             nr      == res_numbers[proj_nr + 1]
             mode    == IF p.mode = env.high_signed THEN env.low_signed
                        ELSE env.low_unsigned
             L1      == [L EXCEPT !.nodes[proj].val = nr]
             b       == Len(L.nodes)
             L2      == new_ir_nodes(L1, <<
                           new_r("Proj", env.low_unsigned, p.blk,
                                 <<results>>, nr, ""),
                           new_r("Proj", mode, p.blk, <<results>>, nr + 1,
                                 "")>>)
         IN  IF p.ins[1] # results
             THEN lower_Call_projs(L, Tail(projs), results, res_numbers)
             ELSE IF proj_nr + 1 > Len(res_numbers)
             THEN [L EXCEPT !.panic = "res_numbers read out of bounds"]
             ELSE IF env.entries[proj].has
             THEN lower_Call_projs(
                      mark_irn_visited(set_entry(L2, proj, b + 1, b + 2),
                                       proj),
                      Tail(projs), results, res_numbers)
             ELSE lower_Call_projs(mark_irn_visited(L1, proj), Tail(projs),
                                   results, res_numbers)

\* lower_Call: the type of the Call, its parameters and its results
lower_Call(L, node) ==
    LET env     == L.lenv
        n       == L.nodes[node]
        tp      == n.val
        call_tp == IF is_lowered_type(L.irp, tp)
                   THEN get_associated_type(L.irp, tp) ELSE tp
        params  == L.irp.types[call_tp].params
        ress    == L.irp.types[call_tp].ress
        need    == \/ \E i \in 1..Len(params) : is_high(env, params[i])
                   \/ \E i \in 1..Len(ress) : is_high(env, ress[i])
        res_numbers == new_projs(env, ress, 0)
        low     == lower_mtp(L.irp, env, call_tp)
        L1      == [L EXCEPT !.irp = low.P, !.nodes[node].val = low.res]
        preds   == SubSeq(n.ins, 3, 2 + Len(params))
        wait    == \E i \in 1..Len(preds) :
                       /\ env.entries[preds[i]].has
                       /\ env.entries[preds[i]].low_word = 0
        L2      == set_irn_in(L1, node,
                              <<n.ins[1], n.ins[2]>>
                                  \o lowered_ress(L, preds))
        chain   == link_chain(L, L.link[node])
        found   == {i \in 1..Len(chain) :
                       /\ L.nodes[chain[i]].sym = "T_result"
                       /\ L.nodes[chain[i]].ins[1] = node}
        results == chain[CHOOSE i \in found : \A j \in found : i <= j]
    IN  IF is_lowered_type(L.irp, call_tp)
        THEN [L EXCEPT !.panic = "assert(!is_lowered_type(call_tp))"]
        ELSE IF ~need THEN L
        ELSE IF Len(n.ins) < 2 + Len(params)
        THEN [L EXCEPT !.panic = "Call parameter read out of bounds"]
        ELSE IF wait THEN pdeq_putr(L1, node)
        ELSE IF found = {} THEN L2
        ELSE lower_Call_projs(L2, link_chain(L, L.link[results]), results,
                              res_numbers)

\* prepare_links_and_handle_rotl: the post callback of the first walk; a
\* doubleword Rotl becomes Or(Shl, Shr) unless it rotates by a Const of the
\* size of its mode, which is left without an entry
prepare_links_and_handle_rotl(L, node) ==
    LET env   == L.lenv
        n     == L.nodes[node]
        right == L.nodes[n.ins[2]]
        b     == Len(L.nodes)
        bits  == 2 * env.tv_mode_bits
        L1    == new_ir_nodes(L, <<
                    new_r("Shl", n.mode, n.blk, <<n.ins[1], n.ins[2]>>, 0,
                          ""),
                    new_r("Const", right.mode, get_irg_start_block(L), <<>>,
                          bits, ""),
                    new_r("Sub", right.mode, n.blk, <<b + 2, n.ins[2]>>, 0,
                          ""),
                    new_r("Shr", n.mode, n.blk, <<n.ins[1], b + 3>>, 0, ""),
                    new_r("Or", n.mode, n.blk, <<b + 1, b + 4>>, 0, "")>>)
        L2    == exchange(L1, node, b + 5)
    IN  IF n.op # "Rotl" THEN prepare_links(L, node)
        ELSE IF ~is_high(env, get_irn_op_mode(L, node)) THEN L
        ELSE IF right.op = "Const" /\ right.val = bits THEN L
        ELSE prepare_links(prepare_links(prepare_links(prepare_links(
                 prepare_links(L2, b + 1), b + 2), b + 3), b + 4), b + 5)


\* the first loop of lower_ops: the doubleword compares that feed a node of
\* mode b, a Mux or a Conv
RECURSIVE lower_ops_bool(_, _, _)
lower_ops_bool(L, node, i) ==
    LET env  == L.lenv
        proj == L.nodes[node].ins[i]
        cmp  == L.nodes[proj].ins[1]
        arg  == L.nodes[cmp].ins[1]
        low  == lower_boolean_Proj_Cmp(L, proj, cmp)
    IN  IF i < 1 THEN [L |-> L, done |-> TRUE]
        ELSE IF /\ L.nodes[proj].op = "Proj"
                /\ L.nodes[cmp].op = "Cmp"
                /\ is_high(env, L.nodes[arg].mode)
        THEN IF low.L.panic # "" THEN [L |-> low.L, done |-> FALSE]
             ELSE IF low.res = 0
             THEN [L |-> pdeq_putr(L, node), done |-> FALSE]
             ELSE lower_ops_bool([low.L EXCEPT !.nodes[node].ins[i] =
                                                  low.res],
                                 node, i - 1)
        ELSE lower_ops_bool(L, node, i - 1)

\* the results of the DivMod that a Proj of the link list takes
DivMod_flags(L, node) ==
    LET projs == link_chain(L, L.link[node])
    IN  {L.nodes[projs[i]].sym : i \in 1..Len(projs)}
            \cap {"res_div", "res_mod"}

\* the second loop of lower_DivMod over the Projs linked to the DivMod
RECURSIVE lower_DivMod_projs(_, _, _, _, _, _)
lower_DivMod_projs(L, projs, first, resDiv, resMod, mode) ==
    IF projs = <<>> \/ L.panic # "" THEN L
    ELSE LET proj == Head(projs)
             p    == L.nodes[proj]
             b    == Len(L.nodes)
             res  == IF p.sym = "res_div" THEN resDiv ELSE resMod
             L1   == new_ir_nodes(L, <<
                        new_r("Proj", L.lenv.low_unsigned,
                              L.nodes[res].blk, <<res>>, 0, ""),
                        new_r("Proj", mode, L.nodes[res].blk, <<res>>, 1,
                              "")>>)
             done == CASE p.sym \in {"M", "X_except"} ->
                            set_irn_in(L, proj, <<first>>)
                       [] p.sym \in {"res_div", "res_mod"} ->
                            set_entry(L1, proj, b + 1, b + 2)
                       [] OTHER ->
                            [L EXCEPT !.panic = "unexpected Proj number"]
         IN  lower_DivMod_projs(IF done.panic # "" THEN done
                                ELSE mark_irn_visited(done, proj),
                                Tail(projs), first, resDiv, resMod, mode)

\* callDiv ? callDiv : (callMod ? callMod : mem)
reroute_to_first(callDiv, callMod, mem) ==
    IF callDiv # 0 THEN callDiv ELSE IF callMod # 0 THEN callMod ELSE mem

\* the Call of one emulation function of lower_DivMod and the Proj of its
\* results
DivMod_call(L, node, op, mem, in, mtp) ==
    LET n  == L.nodes[node]
        om == get_irn_op_mode(L, node)
        L1 == get_intrinsic_address(L, mtp, op, om, om)
        b  == Len(L1.nodes)
    IN  new_ir_nodes(L1, <<
            MkNode("Call", "T", n.blk, <<mem, b>> \o in, mtp, "", n.pin, 0),
            new_r("Proj", "T", n.blk, <<b + 1>>, 0, "T_result")>>)

\* lower_DivMod: a Call for every result that a Proj takes; a Call takes
\* three nodes: the SymConst, the Call and the Proj of its results
lower_DivMod(L, node, mode) ==
    LET env     == L.lenv
        n       == L.nodes[node]
        flags   == DivMod_flags(L, node)
        left    == env.entries[n.ins[2]]
        right   == env.entries[n.ins[3]]
        in      == binop_in(left, right)
        mtp     == IF mode = env.low_signed THEN L.irp.binop_tp_s
                   ELSE L.irp.binop_tp_u
        b       == Len(L.nodes)
        both    == flags = {"res_div", "res_mod"}
        callDiv == IF "res_div" \in flags THEN b + 2 ELSE 0
        mem     == IF both THEN b + 4 ELSE n.ins[1]
        callMod == IF both THEN b + 6
                   ELSE IF "res_mod" \in flags THEN b + 2 ELSE 0
        L1      == IF "res_div" \in flags
                   THEN DivMod_call(L, node, "Div", n.ins[1], in, mtp)
                   ELSE L
        L2      == IF both
                   THEN new_ir_node(L1, new_r("Proj", "M", n.blk,
                                              <<callDiv>>, 0, "M"))
                   ELSE L1
        L3      == IF "res_mod" \in flags
                   THEN DivMod_call(L2, node, "Mod", mem, in, mtp)
                   ELSE L2
    IN  IF ~left.has THEN [L EXCEPT !.panic = "assert(entry)"]
        ELSE IF left.low_word = 0 THEN pdeq_putr(L, node)
        ELSE IF ~right.has THEN [L EXCEPT !.panic = "assert(entry)"]
        ELSE IF right.low_word = 0 THEN pdeq_putr(L, node)
        ELSE lower_DivMod_projs(L3, link_chain(L, L.link[node]),
                                reroute_to_first(callDiv, callMod, mem),
                                callDiv + 1, callMod + 1, mode)

\* the lower functions that lower_dw_ops enters into the opcodes
lower_func(op) ==
    CASE op \in {"Add", "Sub", "Mul"} -> "lower_Binop"
      [] op \in {"And", "Or", "Eor"} -> "lower_Binop_logical"
      [] op = "ASM" -> "lower_ASM"
      [] op = "Call" -> "lower_Call"
      [] op = "Cond" -> "lower_Cond"
      [] op = "Const" -> "lower_Const"
      [] op = "Conv" -> "lower_Conv"
      [] op = "Load" -> "lower_Load"
      [] op = "Minus" -> "lower_Unop"
      [] op = "Mux" -> "lower_Mux"
      [] op = "Not" -> "lower_Not"
      [] op = "Phi" -> "lower_Phi"
      [] op = "Return" -> "lower_Return"
      [] op = "Rotl" -> "lower_Rotl"
      [] op = "Shl" -> "lower_Shl"
      [] op = "Shr" -> "lower_Shr"
      [] op = "Shrs" -> "lower_Shrs"
      [] op = "Start" -> "lower_Start"
      [] op = "Store" -> "lower_Store"
      [] op = "Unknown" -> "lower_Unknown"
      [] op = "DivMod" -> "lower_DivMod"
      [] op \in {"Div", "Mod", "Sel"} -> "other"
      [] OTHER -> ""

\* lower_Conv: a Conv between modes that are no doubleword modes stays
lower_Conv(L, node) ==
    IF \/ is_high(L.lenv, L.nodes[node].mode)
       \/ is_high(L.lenv, L.nodes[L.nodes[node].ins[1]].mode)
    THEN [L EXCEPT !.panic = "opcode outside the model"]
    ELSE L

\* lower_ops after its first loop: the lower function of the opcode is
\* called for a node that has an entry or is always lowered
lower_ops_enter(first, node) ==
    LET La    == first.L
        n     == La.nodes[node]
        env   == La.lenv
        entry == IF node <= Len(env.entries) THEN env.entries[node]
                 ELSE NoEntry
        func  == lower_func(n.op)
        high  == get_irn_op_mode(La, node)
        mode  == IF high = env.high_signed THEN env.low_signed
                 ELSE env.low_unsigned
    IN  IF ~first.done THEN La
        ELSE IF ~(entry.has \/ always_lower(n.op)) \/ func = "" THEN La
        ELSE CASE func = "lower_Binop"  -> lower_Binop(La, node, mode)
               [] func = "lower_ASM"    -> lower_ASM(La, node)
               [] func = "lower_Cond"   -> lower_Cond(La, node)
               [] func = "lower_Const"  -> lower_Const(La, node, mode)
               [] func = "lower_Phi"    -> lower_Phi(La, node, mode)
               [] func = "lower_Return" -> lower_Return(La, node)
               [] func = "lower_Start"  -> lower_Start(La, node)
               [] func = "lower_Binop_logical" ->
                      lower_Binop_logical(La, node, mode)
               [] func = "lower_Call"   -> lower_Call(La, node)
               [] func = "lower_Conv"   -> lower_Conv(La, node)
               [] func = "lower_Load"   -> lower_Load(La, node, mode)
               [] func = "lower_Unop"   -> lower_Unop(La, node, mode)
               [] func = "lower_Mux"    -> lower_Mux(La, node, mode)
               [] func = "lower_Not"    -> lower_Not(La, node, mode)
               [] func = "lower_Rotl"   -> lower_Rotl(La, node, mode)
               [] func = "lower_Shl"    -> lower_Shl(La, node, mode)
               [] func = "lower_Shr"    -> lower_Shr(La, node, mode)
               [] func = "lower_Shrs"   -> lower_Shrs(La, node, mode)
               [] func = "lower_Store"  -> lower_Store(La, node)
               [] func = "lower_Unknown" -> lower_Unknown(La, node, mode)
               [] func = "lower_DivMod" -> lower_DivMod(La, node, mode)
               [] OTHER -> [La EXCEPT !.panic = "opcode outside the model"]

\* lower_ops: the callback of the second walk and of the wait queue
lower_ops(L, node) ==
    lower_ops_enter(IF \/ L.nodes[node].mode = "b"
                       \/ L.nodes[node].op \in {"Mux", "Conv"}
                    THEN lower_ops_bool(L, node, Len(L.nodes[node].ins))
                    ELSE [L |-> L, done |-> TRUE],
                    node)


(***************************************************************************)
(* The graph walk.  env.stack is the chain of nodes whose walk has begun:  *)
(* a frame [n, ph, i] is at the block of n (ph = "blk"), at the start of   *)
(* the loop over the inputs ("arity") or before input i ("ins"); the       *)
(* inputs are walked from the last to the first.  env.visited is the set   *)
(* of nodes that carry the visited mark of the walk.                       *)
(***************************************************************************)
firm_clear_node_and_phi_links(L, n) ==
    [L EXCEPT !.link[n] = 0,
              !.lenv.phis = IF L.nodes[n].op = "Block"
                            THEN SelectSeq(@, LAMBDA e : e[1] # n)
                            ELSE @]

irg_walk_visit(L, n, clear) ==
    LET L1 == mark_irn_visited(L, n)
        L2 == IF clear THEN firm_clear_node_and_phi_links(L1, n) ELSE L1
    IN  [L2 EXCEPT !.lenv.stack =
                      Append(@, [n |-> n, ph |-> "blk", i |-> 0])]

\* walk on until the post callback of the node on top of the stack is due
RECURSIVE irg_walk_descend(_, _)
irg_walk_descend(L, clear) ==
    LET d    == Len(L.lenv.stack)
        top  == L.lenv.stack[d]
        n    == L.nodes[top.n]
        pred == IF top.ph = "blk" THEN n.blk ELSE n.ins[top.i]
        L1   == [L EXCEPT !.lenv.stack[d] =
                    IF top.ph = "blk" THEN [top EXCEPT !.ph = "arity"]
                    ELSE IF top.ph = "arity"
                    THEN [top EXCEPT !.ph = "ins", !.i = Len(n.ins)]
                    ELSE [top EXCEPT !.i = top.i - 1]]
    IN  IF top.ph = "ins" /\ top.i = 0 THEN L
        ELSE IF top.ph = "arity" \/ (top.ph = "blk" /\ n.op = "Block")
        THEN irg_walk_descend(L1, clear)
        ELSE IF pred \in L.lenv.visited THEN irg_walk_descend(L1, clear)
        ELSE irg_walk_descend(irg_walk_visit(L1, pred, clear), clear)

\* irg_walk_graph up to the first post callback
irg_walk_graph(L, clear) ==
    irg_walk_visit([L EXCEPT !.lenv.visited = {}, !.lenv.stack = <<>>],
                   EndNode(L.nodes), clear)

irg_walk_return(L) ==
    [L EXCEPT !.lenv.stack = SubSeq(@, 1, Len(@) - 1)]


(***************************************************************************)
(* The programs that are lowered.  The doubleword modes Hs and Hu have 16  *)
(* bits, the word modes Is and Iu have 8.  A graph template is [nodes,     *)
(* type]: the nodes and the method type of its entity.                     *)
(***************************************************************************)
StartProj(sym) == MkNode("Proj", IF sym = "M" THEN "M" ELSE "T", 1, <<2>>, 0,
                         sym, FALSE, 0)

ArgProj(mode, nr) == MkNode("Proj", mode, 1, <<4>>, nr, "", FALSE, 0)

CstM(mode, val) == MkNode("Const", mode, 1, <<>>, val, "", FALSE, 0)

\* m f(m a, m b) { return a op b; }
BinopNodes(op, m, pin) ==
    <<Blk(<<>>, 0), Nd("Start", "T", 1, <<>>), StartProj("M"),
      StartProj("T_args"), ArgProj(m, 0), ArgProj(m, 1),
      MkNode(op, m, 1, <<5, 6>>, 0, "", pin, 0),
      Nd("Return", "X", 1, <<3, 7>>), Blk(<<8>>, 0),
      Nd("End", "X", 9, <<>>), Nd("NoMem", "M", 1, <<>>)>>

\* m f(void) { return c1 op c2; }
ConstOpNodes(op, m, c1, c2) ==
    <<Blk(<<>>, 0), Nd("Start", "T", 1, <<>>), StartProj("M"),
      CstM(m, c1), CstM(m, c2), Nd(op, m, 1, <<4, 5>>),
      Nd("Return", "X", 1, <<3, 6>>), Blk(<<7>>, 0),
      Nd("End", "X", 8, <<>>), Nd("NoMem", "M", 1, <<>>)>>

\* Iu f(Iu a) { return a; }
NothingNodes ==
    <<Blk(<<>>, 0), Nd("Start", "T", 1, <<>>), StartProj("M"),
      StartProj("T_args"), ArgProj("Iu", 0),
      Nd("Return", "X", 1, <<3, 5>>), Blk(<<6>>, 0),
      Nd("End", "X", 7, <<>>), Nd("NoMem", "M", 1, <<>>)>>

\* an ASM node with one input and one result next to a doubleword constant;
\* kind says whether the input ("in"), the result ("out") or neither
\* ("word") has the doubleword mode m
AsmNodes(kind, m) ==
    <<Blk(<<>>, 0), Nd("Start", "T", 1, <<>>), StartProj("M"),
      CstM(m, 258), CstM("Iu", 1),
      Nd("ASM", "T", 1, <<3, IF kind = "in" THEN 4 ELSE 5>>),
      MkNode("Proj", IF kind = "out" THEN m ELSE "Iu", 1, <<6>>, 0, "",
             FALSE, 0),
      Nd("Return", "X", 1, <<3, 7, 4>>), Blk(<<8>>, 0),
      Nd("End", "X", 9, <<>>), Nd("NoMem", "M", 1, <<>>)>>

\* m f(m a, m b) { return a rel b ? a : b; } with a second, word Phi in
\* the block of the join; zero compares with the constant 0 instead of b
CondNodes(m, pnc, zero) ==
    <<Blk(<<>>, 0), Nd("Start", "T", 1, <<>>), StartProj("M"),
      StartProj("T_args"), ArgProj(m, 0),
      IF zero THEN CstM(m, 0) ELSE ArgProj(m, 1),
      Nd("Cmp", "T", 1, <<5, 6>>),
      MkNode("Proj", "b", 1, <<7>>, 0, pnc, FALSE, 0),
      Nd("Cond", "T", 1, <<8>>), PrjX(1, 9, 1), PrjX(1, 9, 0),
      Blk(<<10>>, 0), Nd("Jmp", "X", 12, <<>>), Blk(<<13, 11>>, 0),
      MkNode("Phi", m, 14, <<5, 6>>, 0, "", FALSE, 0),
      Nd("Return", "X", 14, <<3, 15, 22>>), Blk(<<16>>, 0),
      Nd("End", "X", 17, <<>>), Nd("NoMem", "M", 1, <<>>),
      CstM("Iu", 1), CstM("Iu", 2),
      MkNode("Phi", "Iu", 14, <<20, 21>>, 0, "", FALSE, 0)>>

\* m f(void) { x = 0; do x = x op 1; while (x rel n); return x; } where
\* End keeps the Phi of x alive if ka is set
DoWhileLowNodes(m, op, pnc, n, ka) ==
    <<Blk(<<>>, 0), Nd("Start", "T", 1, <<>>), StartProj("M"),
      Nd("Jmp", "X", 1, <<>>), Blk(<<4, 14>>, 0), CstM(m, 0),
      MkNode("Phi", m, 5, <<6, 9>>, 0, "", FALSE, 0), CstM(m, 1),
      Nd(op, m, 5, <<7, 8>>), CstM(m, n), Nd("Cmp", "T", 5, <<9, 10>>),
      MkNode("Proj", "b", 5, <<11>>, 0, pnc, FALSE, 0),
      Nd("Cond", "T", 5, <<12>>), PrjX(5, 13, 1), PrjX(5, 13, 0),
      Blk(<<15>>, 0), Nd("Return", "X", 16, <<3, 9>>), Blk(<<17>>, 0),
      Nd("End", "X", 18, IF ka THEN <<7>> ELSE <<>>),
      Nd("NoMem", "M", 1, <<>>)>>

DwModes == {"Hs", "Hu"}

BinopGraphs ==
    {[nodes |-> BinopNodes(op, m, pin), type |-> MkMethod(<<m, m>>, <<m>>)] :
        op \in {"Add", "Sub", "Mul"}, m \in DwModes, pin \in BOOLEAN}

ConstOpGraphs ==
    {[nodes |-> ConstOpNodes(op, m, IF m = "Hs" THEN -1 ELSE 65535, 258),
      type  |-> MkMethod(<<>>, <<m>>)] :
        op \in {"Add", "Mul"}, m \in DwModes}

NothingGraph == [nodes |-> NothingNodes, type |-> MkMethod(<<"Iu">>, <<"Iu">>)]

AsmGraphs ==
    {[nodes |-> AsmNodes(kind, m),
      type  |-> MkMethod(<<>>, <<IF kind = "out" THEN m ELSE "Iu", m>>)] :
        kind \in {"in", "out", "word"}, m \in DwModes}

CondGraphs ==
    {[nodes |-> CondNodes(m, pnc, zero),
      type  |-> MkMethod(IF zero THEN <<m>> ELSE <<m, m>>, <<m, "Iu">>)] :
        m \in DwModes, pnc \in {"Eq", "Lg", "Lt", "Ge"}, zero \in BOOLEAN}

DoWhileLowGraphs ==
    {[nodes |-> DoWhileLowNodes(m, "Add", pnc, n, ka),
      type  |-> MkMethod(<<>>, <<m>>)] :
        m \in DwModes, pnc \in {"Eq", "Lg", "Le"}, n \in {0, 258},
        ka \in BOOLEAN}

LowerGraphs ==
    BinopGraphs \cup ConstOpGraphs \cup {NothingGraph} \cup AsmGraphs
        \cup CondGraphs \cup DoWhileLowGraphs


(***************************************************************************)
(* The registered modes and the calls of lower_dw_ops that are made.       *)
(***************************************************************************)
WordModes ==
    <<MkMode("Is", "int", 8, TRUE, 8), MkMode("Iu", "int", 8, FALSE, 8),
      MkMode("P", "reference", 8, FALSE, 0),
      MkMode("F", "float", 16, TRUE, 0)>>

ModeRegistries ==
    [std      |-> WordModes \o <<MkMode("Hs", "int", 16, TRUE, 16),
                                 MkMode("Hu", "int", 16, FALSE, 16)>>,
     noshift  |-> WordModes \o <<MkMode("Hs", "int", 16, TRUE, 0),
                                 MkMode("Hu", "int", 16, FALSE, 0)>>,
     signed2  |-> WordModes \o <<MkMode("Hs", "int", 16, TRUE, 16),
                                 MkMode("Hu", "int", 16, FALSE, 16),
                                 MkMode("Ks", "int", 16, TRUE, 16)>>,
     unsign2  |-> WordModes \o <<MkMode("Hu", "int", 16, FALSE, 16),
                                 MkMode("Ku", "int", 16, FALSE, 16),
                                 MkMode("Hs", "int", 16, TRUE, 16)>>,
     nosigned |-> WordModes \o <<MkMode("Hu", "int", 16, FALSE, 16)>>,
     oddshift |-> WordModes \o <<MkMode("Hs", "int", 16, TRUE, 4),
                                 MkMode("Hu", "int", 16, FALSE, 4)>>]

\* the lwrdw_param_t that is handed over (null: the NULL pointer)
LowerParams ==
    {[null |-> n, doubleword_size |-> 16, little_endian |-> TRUE] :
        n \in BOOLEAN}

MaxCalls == 2

\* what lower_dw_ops reserves for a graph
LowerResources == {"PHI_LIST", "IRN_LINK"}

\* a variant that gives back the links only
FreesLinksOnly == {"IRN_LINK"}

\* what lower_dw_ops frees when it is done with a graph
LowerFreedResources == {"PHI_LIST", "IRN_LINK"}

\* a variant that leaves the loop information as it is
ClearsDominanceAndExtblk == {"CONSISTENT_DOMINANCE", "CONSISTENT_EXTBLK"}

\* what lower_dw_ops marks inconsistent when the control flow was changed
CfChangedProps ==
    {"CONSISTENT_DOMINANCE", "CONSISTENT_EXTBLK", "CONSISTENT_LOOPINFO"}

LowerProps ==
    {"CONSISTENT_OUTS", "CONSISTENT_DOMINANCE", "CONSISTENT_EXTBLK",
     "CONSISTENT_LOOPINFO"}

\* the graphs of a program, the last of which is lowered first
LowerGraphLists ==
    {<<g>> : g \in LowerGraphs}
        \cup {<<NothingGraph, g>> : g \in ConstOpGraphs \cup AsmGraphs}
        \cup {<<g, NothingGraph>> : g \in ConstOpGraphs \cup AsmGraphs}
        \cup {<<NothingGraph, NothingGraph>>}

LowerProgram(gs, modes, param) ==
    [irgs |-> [i \in 1..Len(gs) |->
                  [nodes |-> gs[i].nodes, link |-> NoLinks(gs[i].nodes),
                   props |-> LowerProps, reserved |-> {}, ent |-> i]],
     types |-> [i \in 1..Len(gs) |-> gs[i].type],
     entities |-> <<>>, modes |-> modes, param |-> param,
     lowered_type |-> {}, intrinsic_fkt |-> {}, tp_u |-> "", tp_s |-> "",
     binop_tp_u |-> 0, binop_tp_s |-> 0, shiftop_tp_u |-> 0,
     shiftop_tp_s |-> 0, unop_tp_u |-> 0, unop_tp_s |-> 0, calls |-> 0]

LowerPrograms ==
    {LowerProgram(gs, ModeRegistries.std,
                  [null |-> FALSE, doubleword_size |-> 16,
                   little_endian |-> TRUE]) :
        gs \in LowerGraphLists}
    \cup {LowerProgram(<<g>>, ModeRegistries[r], param) :
            g \in {NothingGraph} \cup ConstOpGraphs,
            r \in DOMAIN ModeRegistries, param \in LowerParams}

\* the lower_env_t after memset
ZeroEnv ==
    [high_signed |-> "", high_unsigned |-> "", low_signed |-> "",
     low_unsigned |-> "", modulo_shift |-> 0, tv_mode_bytes |-> 0,
     tv_mode_bits |-> 0, waitq |-> <<>>, i |-> 0,
     entries |-> <<>>, flags |-> {}, proj_2_block |-> {}, l_mtp |-> 0,
     phis |-> <<>>, stack |-> <<>>, visited |-> {}, panic |-> ""]

InitLower ==
    /\ scen = "lower"
    /\ pc = "ld_call"
    /\ IdleVerify
    /\ IdleUnroll
    /\ NoGraph
    /\ irp \in LowerPrograms
    /\ lenv = ZeroEnv

\* a method type that lower_dw_ops creates once
make_static(P, name, params, ress) ==
    IF P[name] # 0 THEN P
    ELSE [P EXCEPT !.types = Append(@, MkMethod(params, ress)),
                   ![name] = Len(P.types) + 1]

\* the static types of lower_dw_ops
create_static_types(P, env) ==
    LET P1 == [P EXCEPT !.tp_u = IF @ = "" THEN env.low_unsigned ELSE @,
                        !.tp_s = IF @ = "" THEN env.low_signed ELSE @]
        u  == P1.tp_u
        s  == P1.tp_s
        P2 == make_static(P1, "binop_tp_u", <<u, u, u, u>>, <<u, u>>)
        P3 == make_static(P2, "binop_tp_s", <<u, s, u, s>>, <<u, s>>)
        P4 == make_static(P3, "shiftop_tp_u", <<u, u, u>>, <<u, u>>)
        P5 == make_static(P4, "shiftop_tp_s", <<u, s, u>>, <<u, s>>)
        P6 == make_static(P5, "unop_tp_u", <<u, u>>, <<u, u>>)
    IN  make_static(P6, "unop_tp_s", <<u, s>>, <<u, s>>)


\* the value the lowering functions work on, and its way back
LState == [nodes |-> nodes, link |-> link, irp |-> irp, lenv |-> lenv,
           panic |-> ""]

LCommit(R) ==
    /\ nodes' = R.nodes
    /\ link' = R.link
    /\ irp' = R.irp
    /\ lenv' = [R.lenv EXCEPT !.panic = R.panic]

\* a finished graph goes back into the program
store_irg(P, i, ns, ln, ps, rs) ==
    [P EXCEPT !.irgs[i] = [@ EXCEPT !.nodes = ns, !.link = ln, !.props = ps,
                                    !.reserved = rs]]

\* what lower_dw_ops gives up at the end of the loop body
next_irg(env) ==
    [env EXCEPT !.i = @ - 1, !.entries = <<>>, !.proj_2_block = {},
                !.stack = <<>>, !.visited = {}]

\* lower_dw_ops up to the loop over the graphs
LowerDwOpsEnter ==
    /\ scen = "lower" /\ pc = "ld_call"
    /\ LET param == irp.param
           modes == setup_modes(irp.modes, param.doubleword_size)
           env   == [ZeroEnv EXCEPT
                        !.high_signed = modes.high_signed,
                        !.high_unsigned = modes.high_unsigned,
                        !.low_signed = modes.low_signed,
                        !.low_unsigned = modes.low_unsigned,
                        !.modulo_shift = modes.modulo_shift,
                        !.tv_mode_bytes = param.doubleword_size \div (2 * 8),
                        !.tv_mode_bits = param.doubleword_size \div 2,
                        !.i = Len(irp.irgs)]
       IN  IF param.null
           THEN /\ pc' = "ld_returned"
                /\ irp' = [irp EXCEPT !.calls = @ + 1]
                /\ lenv' = lenv
           ELSE IF modes.panic # ""
           THEN /\ pc' = "ld_panic"
                /\ irp' = irp
                /\ lenv' = [ZeroEnv EXCEPT !.panic = modes.panic]
           ELSE /\ pc' = "ld_graph"
                /\ irp' = create_static_types(irp, env)
                /\ lenv' = env
    /\ UNCHANGED <<scen, varsV, up, varsG>>

\* the loop body of lower_dw_ops up to the first callback of the first walk
LowerGraphBegin ==
    /\ scen = "lower" /\ pc = "ld_graph"
    /\ lenv.i >= 1
    /\ LET irg   == irp.irgs[lenv.i]
           n_idx == Len(irg.nodes) + (Len(irg.nodes) \div 4)
           must  == mtp_must_be_lowered(irp, lenv, irg.ent)
           low   == lower_mtp(irp, lenv, irg.ent)
           env   == [lenv EXCEPT
                        !.entries = [k \in 1..n_idx |-> NoEntry],
                        !.l_mtp = IF must THEN low.res ELSE 0,
                        !.flags = IF must THEN {"MUST_BE_LOWERED"} ELSE {},
                        !.proj_2_block = {},
                        !.phis = <<>>]
           P     == IF must THEN [low.P EXCEPT !.irgs[lenv.i].ent = low.res]
                    ELSE irp
           L     == [nodes |-> irg.nodes, link |-> irg.link, irp |-> P,
                     lenv |-> env, panic |-> ""]
       IN  /\ LCommit(irg_walk_graph(L, TRUE))
           /\ props' = irg.props
           /\ reserved' = irg.reserved \cup LowerResources
    /\ pc' = "ld_prepare"
    /\ UNCHANGED <<scen, varsV, up, outs>>

\* one callback of the first walk
PrepareLinks ==
    /\ scen = "lower" /\ pc = "ld_prepare"
    /\ lenv.stack # <<>>
    /\ LET L1   == irg_walk_descend(LState, TRUE)
           node == L1.lenv.stack[Len(L1.lenv.stack)].n
       IN  LCommit(irg_walk_return(
              prepare_links_and_handle_rotl(L1, node)))
    /\ UNCHANGED <<scen, pc, varsV, up, outs, props, reserved>>

\* MUST_BE_LOWERED is set: the second walk begins
LowerGraphStartLowering ==
    /\ scen = "lower" /\ pc = "ld_prepare"
    /\ lenv.stack = <<>>
    /\ "MUST_BE_LOWERED" \in lenv.flags
    /\ LCommit(irg_walk_graph(LState, FALSE))
    /\ pc' = "ld_lower"
    /\ UNCHANGED <<scen, varsV, up, outs, props, reserved>>

\* MUST_BE_LOWERED is not set: the resources are freed, the graph stays
LowerGraphNothingToLower ==
    /\ scen = "lower" /\ pc = "ld_prepare"
    /\ lenv.stack = <<>>
    /\ "MUST_BE_LOWERED" \notin lenv.flags
    /\ reserved' = reserved \ LowerFreedResources
    /\ irp' = store_irg(irp, lenv.i, nodes, link, props, reserved')
    /\ lenv' = next_irg(lenv)
    /\ pc' = "ld_graph"
    /\ UNCHANGED <<scen, varsV, up, nodes, link, outs, props>>

\* the callback of the second walk on the node the walk has reached
lower_ops_walked(L1) ==
    irg_walk_return(lower_ops(L1, L1.lenv.stack[Len(L1.lenv.stack)].n))

\* one callback of the second walk
LowerOpsWalk ==
    /\ scen = "lower" /\ pc = "ld_lower"
    /\ lenv.stack # <<>>
    /\ \E L2 \in {lower_ops_walked(irg_walk_descend(LState, FALSE))} :
           /\ LCommit(L2)
           /\ pc' = IF L2.panic # "" THEN "ld_panic"
                    ELSE IF L2.lenv.stack = <<>> THEN "ld_waitq"
                    ELSE "ld_lower"
    /\ UNCHANGED <<scen, varsV, up, outs, props, reserved>>

\* one node of the wait queue
LowerOpsWaiting ==
    /\ scen = "lower" /\ pc = "ld_waitq"
    /\ lenv.waitq # <<>>
    /\ \E L2 \in {lower_ops([LState EXCEPT !.lenv.waitq = Tail(@)],
                             Head(lenv.waitq))} :
           /\ LCommit(L2)
           /\ pc' = IF L2.panic # "" THEN "ld_panic" ELSE "ld_waitq"
    /\ UNCHANGED <<scen, varsV, up, outs, props, reserved>>

\* the wait queue is empty: the resources are freed and the properties of
\* the graph that no longer hold are cleared
LowerGraphFinish ==
    /\ scen = "lower" /\ pc = "ld_waitq"
    /\ lenv.waitq = <<>>
    /\ reserved' = reserved \ LowerFreedResources
    /\ props' = IF "CF_CHANGED" \in lenv.flags
                THEN props \ ({"CONSISTENT_OUTS"} \cup CfChangedProps)
                ELSE props \ {"CONSISTENT_OUTS"}
    /\ irp' = store_irg(irp, lenv.i, nodes, link, props', reserved')
    /\ lenv' = next_irg(lenv)
    /\ pc' = "ld_graph"
    /\ UNCHANGED <<scen, varsV, up, nodes, link, outs>>

\* all graphs are done: lower_dw_ops returns
LowerDwOpsReturn ==
    /\ scen = "lower" /\ pc = "ld_graph"
    /\ lenv.i = 0
    /\ irp' = [irp EXCEPT !.calls = @ + 1]
    /\ pc' = "ld_returned"
    /\ UNCHANGED <<scen, varsV, up, varsG, lenv>>

\* the caller runs the pass once more with the same parameters
LowerDwOpsAgain ==
    /\ scen = "lower" /\ pc = "ld_returned"
    /\ irp.calls < MaxCalls
    /\ lenv' = ZeroEnv
    /\ pc' = "ld_call"
    /\ UNCHANGED <<scen, varsV, up, varsG, irp>>

Next ==
    \/ LowerDwOpsEnter
    \/ LowerGraphBegin
    \/ PrepareLinks
    \/ LowerGraphStartLowering
    \/ LowerGraphNothingToLower
    \/ LowerOpsWalk
    \/ LowerOpsWaiting
    \/ LowerGraphFinish
    \/ LowerDwOpsReturn
    \/ LowerDwOpsAgain

Init == InitLower

Spec == Init /\ [][Next]_vars

(***************************************************************************)
(* Graphs for the single lowering functions, and lower_dw_ops on them.     *)
(***************************************************************************)
\* m f(void) { return c; }
ConstRetNodes(m, c) ==
    <<Blk(<<>>, 0), Nd("Start", "T", 1, <<>>), StartProj("M"), CstM(m, c),
      Nd("Return", "X", 1, <<3, 4>>), Blk(<<5>>, 0), Nd("End", "X", 6, <<>>),
      Nd("NoMem", "M", 1, <<>>)>>

\* m f(m a [, Iu n]) { return a op cnt; } for a shift or a rotation; cnt is
\* the node of the count, a Const or the second parameter
ShiftNodes(op, m, cnt) ==
    <<Blk(<<>>, 0), Nd("Start", "T", 1, <<>>), StartProj("M"),
      StartProj("T_args"), ArgProj(m, 0), cnt, Nd(op, m, 1, <<5, 6>>),
      Nd("Return", "X", 1, <<3, 7>>), Blk(<<8>>, 0),
      Nd("End", "X", 9, <<>>), Nd("NoMem", "M", 1, <<>>)>>

\* r f(m a, m b) { return a rel b ? x : y; } as a Mux: of a and b if wide,
\* of the words 1 and 2 otherwise
MuxNodes(m, pnc, wide) ==
    <<Blk(<<>>, 0), Nd("Start", "T", 1, <<>>), StartProj("M"),
      StartProj("T_args"), ArgProj(m, 0), ArgProj(m, 1),
      Nd("Cmp", "T", 1, <<5, 6>>),
      MkNode("Proj", "b", 1, <<7>>, 0, pnc, FALSE, 0),
      IF wide THEN Nd("Mux", m, 1, <<8, 6, 5>>)
      ELSE Nd("Mux", "Iu", 1, <<8, 15, 14>>),
      Nd("Return", "X", 1, <<3, 9>>), Blk(<<10>>, 0),
      Nd("End", "X", 11, <<>>), Nd("NoMem", "M", 1, <<>>),
      CstM("Iu", 1), CstM("Iu", 2)>>

\* the Proj of a Load or a Store besides M and res: none, the exception
\* or the regular control flow
ExtraProj(px, pred) ==
    IF px = "none" THEN <<>>
    ELSE <<MkNode("Proj", "X", 1, <<pred>>, 0, px, FALSE, 0)>>

\* m f(P p) { return *p; }
LoadNodes(m, px) ==
    <<Blk(<<>>, 0), Nd("Start", "T", 1, <<>>), StartProj("M"),
      StartProj("T_args"), ArgProj("P", 0),
      MkNode("Load", "T", 1, <<3, 5>>, 0, m, TRUE, 0),
      MkNode("Proj", "M", 1, <<6>>, 0, "M", FALSE, 0),
      MkNode("Proj", m, 1, <<6>>, 0, "res", FALSE, 0),
      Nd("Return", "X", 1, <<7, 8>>),
      Blk(IF px = "none" THEN <<9>> ELSE <<9, 13>>, 0),
      Nd("End", "X", 10, <<>>), Nd("NoMem", "M", 1, <<>>)>>
        \o ExtraProj(px, 6)

\* void f(P p, m v) { *p = v; }
StoreNodes(m, px) ==
    <<Blk(<<>>, 0), Nd("Start", "T", 1, <<>>), StartProj("M"),
      StartProj("T_args"), ArgProj("P", 0), ArgProj(m, 1),
      MkNode("Store", "T", 1, <<3, 5, 6>>, 0, "", TRUE, 0),
      MkNode("Proj", "M", 1, <<7>>, 0, "M", FALSE, 0),
      Nd("Return", "X", 1, <<8>>),
      Blk(IF px = "none" THEN <<9>> ELSE <<9, 13>>, 0),
      Nd("End", "X", 10, <<>>), Nd("NoMem", "M", 1, <<>>)>>
        \o ExtraProj(px, 7)

\* (r1, r2) f(p1 a, p2 b) { return f(a, b); }: the Call has the method
\* type of the graph, type 1
CallNodes(ps, rs) ==
    <<Blk(<<>>, 0), Nd("Start", "T", 1, <<>>), StartProj("M"),
      StartProj("T_args"), ArgProj(ps[1], 0), ArgProj(ps[2], 1),
      MkNode("SymConst", "P", 1, <<>>, 0, "addr_ent", FALSE, 0),
      MkNode("Call", "T", 1, <<3, 7, 5, 6>>, 1, "", TRUE, 0),
      MkNode("Proj", "M", 1, <<8>>, 0, "M", FALSE, 0),
      MkNode("Proj", "T", 1, <<8>>, 0, "T_result", FALSE, 0),
      MkNode("Proj", rs[1], 1, <<10>>, 0, "", FALSE, 0),
      MkNode("Proj", rs[2], 1, <<10>>, 1, "", FALSE, 0),
      Nd("Return", "X", 1, <<9, 11, 12>>), Blk(<<13>>, 0),
      Nd("End", "X", 14, <<>>), Nd("NoMem", "M", 1, <<>>)>>

\* m f(m a) { return Confirm(a, 0); }: an opcode without a lower function
ConfirmNodes(m) ==
    <<Blk(<<>>, 0), Nd("Start", "T", 1, <<>>), StartProj("M"),
      StartProj("T_args"), ArgProj(m, 0), CstM(m, 0),
      Nd("Confirm", m, 1, <<5, 6>>), Nd("Return", "X", 1, <<3, 7>>),
      Blk(<<8>>, 0), Nd("End", "X", 9, <<>>), Nd("NoMem", "M", 1, <<>>)>>

\* m f(void) { x = 0; do x = op(x, 1); while (x != 258); return x; } with
\* the node of the operation (node 9, Phi 7, Const 8) and one more node 21;
\* the compare and the Return read the node res: the new value (node 9) or
\* the value at the head of the loop (the Phi)
LoopOpNodes(m, opnode, extra, res) ==
    <<Blk(<<>>, 0), Nd("Start", "T", 1, <<>>), StartProj("M"),
      Nd("Jmp", "X", 1, <<>>), Blk(<<4, 14>>, 0), CstM(m, 0),
      MkNode("Phi", m, 5, <<6, 9>>, 0, "", FALSE, 0), CstM(m, 1),
      opnode, CstM(m, 258), Nd("Cmp", "T", 5, <<res, 10>>),
      MkNode("Proj", "b", 5, <<11>>, 0, "Lg", FALSE, 0),
      Nd("Cond", "T", 5, <<12>>), PrjX(5, 13, 1), PrjX(5, 13, 0),
      Blk(<<15>>, 0), Nd("Return", "X", 16, <<3, res>>), Blk(<<17>>, 0),
      Nd("End", "X", 18, <<>>), Nd("NoMem", "M", 1, <<>>), extra>>

\* the constants that are split
SplitConsts(m) ==
    IF m = "Hs" THEN {0, 1, 255, 256, 511, 32767, -1, -256, -257, -32768}
    ELSE {0, 1, 255, 256, 511, 32768, 65280, 65535}

\* the constant shift counts: below a word, a word and more, a doubleword
\* and more
ShiftCounts == {3, 8, 9, 15, 16, 17}

CmpRelations == {"Eq", "Lg", "Lt", "Le", "Gt", "Ge"}

ParamModes == {"Iu", "Hs", "Hu"}

ConstRetGraphs ==
    UNION {{[nodes |-> ConstRetNodes(m, c), type |-> MkMethod(<<>>, <<m>>)] :
               c \in SplitConsts(m)} : m \in DwModes}

ShiftGraphs ==
    {[nodes |-> ShiftNodes(op, m, CstM("Iu", c)),
      type  |-> MkMethod(<<m>>, <<m>>)] :
        op \in {"Shl", "Shr", "Shrs", "Rotl"}, m \in DwModes,
        c \in ShiftCounts} \cup
    {[nodes |-> ShiftNodes(op, m, ArgProj("Iu", 1)),
      type  |-> MkMethod(<<m, "Iu">>, <<m>>)] :
        op \in {"Shl", "Shr", "Shrs", "Rotl"}, m \in DwModes}

MuxGraphs ==
    {[nodes |-> MuxNodes(m, pnc, wide),
      type  |-> MkMethod(<<m, m>>, <<IF wide THEN m ELSE "Iu">>)] :
        m \in DwModes, pnc \in CmpRelations, wide \in BOOLEAN}

MoreCondGraphs ==
    {[nodes |-> CondNodes(m, pnc, FALSE),
      type  |-> MkMethod(<<m, m>>, <<m, "Iu">>)] :
        m \in DwModes, pnc \in {"Le", "Gt"}}

MemoryGraphs ==
    {[nodes |-> LoadNodes(m, px), type |-> MkMethod(<<"P">>, <<m>>)] :
        m \in DwModes, px \in {"none", "X_except", "X_regular"}} \cup
    {[nodes |-> StoreNodes(m, px), type |-> MkMethod(<<"P", m>>, <<>>)] :
        m \in DwModes, px \in {"none", "X_except", "X_regular"}}

CallGraphs ==
    {[nodes |-> CallNodes(<<p1, p2>>, <<r1, r2>>),
      type  |-> MkMethod(<<p1, p2>>, <<r1, r2>>)] :
        p1 \in ParamModes, p2 \in ParamModes, r1 \in ParamModes,
        r2 \in ParamModes}

ConfirmGraphs ==
    {[nodes |-> ConfirmNodes(m), type |-> MkMethod(<<m>>, <<m>>)] :
        m \in DwModes}

\* the operation in the loop: on the Phi 7 and, if binary, on the Const 8
\* or on the count 21
LoopOp(m, op) ==
    Nd(op, m, 5, IF op \in {"Minus", "Not"} THEN <<7>>
                 ELSE IF op \in {"Shl", "Shrs"} THEN <<7, 21>>
                 ELSE <<7, 8>>)

LoopOpGraphs ==
    {[nodes |-> LoopOpNodes(m, LoopOp(m, op), CstM("Iu", 9), res),
      type  |-> MkMethod(<<>>, <<m>>)] :
        m \in DwModes, op \in {"Sub", "And", "Minus", "Not", "Shl", "Shrs"},
        res \in {7, 9}}

\* the Projs of the results of the DivMod 7 that the graph takes
DivModResults(m, which) ==
    CASE which = "both" -> <<MkNode("Proj", m, 1, <<7>>, 0, "res_div",
                                    FALSE, 0),
                             MkNode("Proj", m, 1, <<7>>, 0, "res_mod",
                                    FALSE, 0)>>
      [] which = "div" -> <<MkNode("Proj", m, 1, <<7>>, 0, "res_div",
                                   FALSE, 0)>>
      [] which = "mod" -> <<MkNode("Proj", m, 1, <<7>>, 0, "res_mod",
                                   FALSE, 0)>>
      [] OTHER -> <<>>

\* (m, m) f(m a, m b) { return (a / b, a % b); } with the DivMod 7 and its
\* memory Proj 8; the exception Proj, if there is one, is node 13 and the
\* Projs of the results that are taken come last
DivModNodes(m, which, px) ==
    LET k == IF px = "none" THEN 12 ELSE 13
    IN  <<Blk(<<>>, 0), Nd("Start", "T", 1, <<>>), StartProj("M"),
          StartProj("T_args"), ArgProj(m, 0), ArgProj(m, 1),
          MkNode("DivMod", "T", 1, <<3, 5, 6>>, 0, "", TRUE, 0),
          MkNode("Proj", "M", 1, <<7>>, 0, "M", FALSE, 0),
          Nd("Return", "X", 1,
             CASE which = "both" -> <<8, k + 1, k + 2>>
               [] which = "none" -> <<8>>
               [] OTHER -> <<8, k + 1>>),
          Blk(IF px = "none" THEN <<9>> ELSE <<9, 13>>, 0),
          Nd("End", "X", 10, <<>>), Nd("NoMem", "M", 1, <<>>)>>
            \o ExtraProj(px, 7) \o DivModResults(m, which)

DivModGraphs ==
    {[nodes |-> DivModNodes(m, which, px),
      type  |-> MkMethod(<<m, m>>,
                         CASE which = "both" -> <<m, m>>
                           [] which = "none" -> <<>>
                           [] OTHER -> <<m>>)] :
        m \in DwModes, which \in {"both", "div", "mod", "none"},
        px \in {"none", "X_except"}}

\* the programs of one graph each; the memory graphs are lowered for
\* either byte order, the shifts with and without a modulo shift
OpsPrograms ==
    LowerPrograms
    \cup {LowerProgram(<<g>>, ModeRegistries.std,
                       [null |-> FALSE, doubleword_size |-> 16,
                        little_endian |-> TRUE]) :
             g \in ConstRetGraphs \cup ShiftGraphs \cup MuxGraphs
                      \cup MoreCondGraphs \cup CallGraphs
                      \cup ConfirmGraphs \cup LoopOpGraphs
                      \cup DivModGraphs}
    \cup {LowerProgram(<<g>>, ModeRegistries.noshift,
                       [null |-> FALSE, doubleword_size |-> 16,
                        little_endian |-> TRUE]) : g \in ShiftGraphs}
    \cup {LowerProgram(<<g1, g2>>, ModeRegistries.std,
                       [null |-> FALSE, doubleword_size |-> 16,
                        little_endian |-> TRUE]) :
             g1 \in ConstOpGraphs, g2 \in ConstOpGraphs}
    \cup {LowerProgram(<<g>>, ModeRegistries.std,
                       [null |-> FALSE, doubleword_size |-> 16,
                        little_endian |-> e]) :
             g \in MemoryGraphs, e \in BOOLEAN}

InitLowerOps ==
    /\ scen = "lower"
    /\ pc = "ld_call"
    /\ IdleVerify
    /\ IdleUnroll
    /\ NoGraph
    /\ irp \in OpsPrograms
    /\ lenv = ZeroEnv

SpecOps == InitLowerOps /\ [][Next]_vars


(***************************************************************************)
(* PART 4.  What lower_dw_ops guarantees.                                   *)
(***************************************************************************)
\* an ASM node with an operand or a result Proj of a doubleword mode
UnsupportedASM(ns, env) ==
    \E n \in 1..Len(ns) :
        /\ ns[n].op = "ASM"
        /\ \/ \E i \in 1..Len(ns[n].ins) : is_high(env, ns[ns[n].ins[i]].mode)
           \/ \E p \in 1..Len(ns) :
                  /\ ns[p].op = "Proj" /\ ns[p].ins = <<n>>
                  /\ is_high(env, ns[p].mode)

\* two integer modes of the doubleword width and of the same signedness
MultipleDwModes(modes, size_bits) ==
    \E i, j \in 1..Len(modes) :
        /\ i # j
        /\ mode_is_int(modes[i]) /\ mode_is_int(modes[j])
        /\ modes[i].bits = size_bits /\ modes[j].bits = size_bits
        /\ modes[i].sign = modes[j].sign

\* C8: a call of lower_dw_ops that is given parameters aborts on what it
\* does not support and skips nothing: with more than one signed or more
\* than one unsigned integer mode of the doubleword width registered it
\* gets no further than the panic of setup_modes, and it never finishes a
\* graph (let alone returns) in which an ASM node has an input or a result
\* Proj of doubleword mode; the only way on from such a node is the panic
\* "lowering ASM unimplemented".
C8_UnsupportedAborts ==
    (scen = "lower" /\ ~irp.param.null) =>
        /\ MultipleDwModes(irp.modes, irp.param.doubleword_size)
               => pc \in {"ld_call", "ld_panic"}
        /\ pc \in {"ld_graph", "ld_returned"}
               => \A i \in (lenv.i + 1)..Len(irp.irgs) :
                      ~UnsupportedASM(irp.irgs[i].nodes, lenv)
        /\ pc = "ld_panic" => lenv.panic # ""

\* the pass has stopped at an ASM node with a doubleword result Proj
C8_Witness ==
    /\ scen = "lower" /\ pc = "ld_panic"
    /\ lenv.panic = "lowering ASM unimplemented"
    /\ \E p \in 1..Len(nodes) :
           /\ nodes[p].op = "Proj" /\ is_high(lenv, nodes[p].mode)
           /\ nodes[nodes[p].ins[1]].op = "ASM"

\* the doubleword Add, Sub and Mul nodes of the graph that have their pair
ResolvedBinops ==
    {n \in 1..Len(nodes) :
        /\ nodes[n].op \in {"Add", "Sub", "Mul"}
        /\ is_high(lenv, nodes[n].mode)
        /\ n <= Len(lenv.entries)
        /\ lenv.entries[n].low_word # 0}

\* the mode of half the size that belongs to a doubleword mode
HalfMode(env, mode) ==
    IF mode = env.high_signed THEN env.low_signed ELSE env.low_unsigned

\* the pair of n is the results 0 and 1 of one Call of the emulation
\* function of n's opcode on the words of n's operands
PairIsIntrinsicCall(n) ==
    LET low   == lenv.entries[n].low_word
        high  == lenv.entries[n].high_word
        half  == HalfMode(lenv, nodes[n].mode)
        res   == nodes[low].ins[1]
        call  == nodes[res].ins[1]
        addr  == nodes[call].ins[2]
        a     == lenv.entries[nodes[n].ins[1]]
        b     == lenv.entries[nodes[n].ins[2]]
    IN  /\ nodes[low].op = "Proj" /\ nodes[low].val = 0
        /\ nodes[low].mode = lenv.low_unsigned
        /\ nodes[high].op = "Proj" /\ nodes[high].val = 1
        /\ nodes[high].mode = half
        /\ nodes[high].ins = <<res>> /\ nodes[low].ins = <<res>>
        /\ nodes[res].op = "Proj" /\ nodes[res].sym = "T_result"
        /\ nodes[res].ins = <<call>>
        /\ nodes[call].op = "Call"
        /\ nodes[call].pin = nodes[n].pin
        /\ nodes[call].blk = nodes[n].blk
        /\ a.low_word # 0 /\ b.low_word # 0
        /\ Len(nodes[call].ins) = 6
        /\ nodes[nodes[call].ins[1]].op = "NoMem"
        /\ SubSeq(nodes[call].ins, 3, 6)
               = <<a.low_word, a.high_word, b.low_word, b.high_word>>
        /\ nodes[addr].op = "SymConst" /\ nodes[addr].sym = "addr_ent"
        /\ irp.entities[nodes[addr].val].ident
               = <<"__l", nodes[n].op, half>>
        /\ [op |-> nodes[n].op, imode |-> half, omode |-> half,
            ent |-> nodes[addr].val] \in irp.intrinsic_fkt

\* C10: in the step of the lowering in which a doubleword Add, Sub or Mul
\* gets its pair, it gets it from one Call: the pair is the result Projs 0
\* (low word, in the low unsigned mode) and 1 (high word, in the half
\* mode) of a Call of the emulation function for (opcode, half mode, half
\* mode), named __l<op><mode>; the pairs of both operands are resolved and
\* the inputs of the Call after the memory and the address are (lo_a, hi_a,
\* lo_b, hi_b), their words in this order; the Call has the pinned state
\* of the node; and the step adds no other Call to the graph.
C10_BinopStep ==
    (scen = "lower" /\ pc \in {"ld_lower", "ld_waitq"}
                    /\ pc' \in {"ld_lower", "ld_waitq"}) =>
        /\ \A n \in ResolvedBinops' :
               n \notin ResolvedBinops => PairIsIntrinsicCall(n)'
        /\ Cardinality({c \in 1..Len(nodes') : nodes'[c].op = "Call"})
               = Cardinality({c \in 1..Len(nodes) : nodes[c].op = "Call"})
                 + Cardinality(ResolvedBinops' \ ResolvedBinops)

C10_BinopBecomesIntrinsicCall == [][C10_BinopStep]_vars

\* a pinned signed Sub has been replaced
C10_Witness ==
    /\ scen = "lower" /\ pc = "ld_waitq"
    /\ \E n \in ResolvedBinops :
           /\ nodes[n].op = "Sub" /\ nodes[n].pin
           /\ nodes[n].mode = lenv.high_signed

\* the nodes reachable from End that have a doubleword mode, as their own
\* mode or as their operational mode
DoublewordNodes(ns, env) ==
    {n \in Reachable(ns) :
        \/ is_high(env, ns[n].mode)
        \/ is_high(env, get_irn_op_mode([nodes |-> ns], n))}

\* C1: when a call of lower_dw_ops that was given parameters has returned,
\* no graph of the program has a node reachable from End whose mode or
\* whose operational mode is the signed or the unsigned doubleword mode.
C1_ModeClosure ==
    (scen = "lower" /\ pc = "ld_returned" /\ ~irp.param.null) =>
        \A i \in 1..Len(irp.irgs) :
            DoublewordNodes(irp.irgs[i].nodes, lenv) = {}

\* lower_dw_ops has returned from a graph with a compare and a Phi of
\* doubleword mode and has left no doubleword node in it
C1_Witness ==
    /\ scen = "lower" /\ pc = "ld_returned" /\ ~irp.param.null
    /\ "CF_CHANGED" \in lenv.flags
    /\ \E n \in 1..Len(nodes) : nodes[n].op = "Phi" /\ nodes[n].mode = "WS"
    /\ DoublewordNodes(irp.irgs[1].nodes, lenv) = {}

\* lower_dw_ops is running (or has returned) with modes set up
LoweringWithModes ==
    /\ scen = "lower" /\ ~irp.param.null
    /\ pc \in {"ld_graph", "ld_prepare", "ld_lower", "ld_waitq",
                "ld_returned"}

\* C3: lower_dw_ops is idempotent.  In a call that follows a completed call
\* with the same parameters MUST_BE_LOWERED is never set, no node gets a
\* pair entry and the graph at hand stays as the program has it; lower_mtp
\* returns a type that is marked lowered as it is, and for an original type
\* that was lowered before it returns the lowered type of that time and
\* creates no type.
C3_Idempotent ==
    LoweringWithModes =>
        /\ (irp.calls >= 1 /\ pc # "ld_returned") =>
               /\ "MUST_BE_LOWERED" \notin lenv.flags
               /\ \A k \in 1..Len(lenv.entries) : ~lenv.entries[k].has
               /\ pc # "ld_graph" => nodes = irp.irgs[lenv.i].nodes
        /\ \A tp \in 1..Len(irp.types) :
               is_lowered_type(irp, tp)
                   => lower_mtp(irp, lenv, tp) = [P |-> irp, res |-> tp]
        /\ \A e \in irp.lowered_type :
               lower_mtp(irp, lenv, e[1]) = [P |-> irp, res |-> e[2]]

\* a second call has gone through a graph that the first call has lowered
C3_Witness ==
    /\ LoweringWithModes /\ pc = "ld_returned" /\ irp.calls = 2
    /\ irp.lowered_type # {}
    /\ \E n \in 1..Len(irp.irgs[1].nodes) : irp.irgs[1].nodes[n].op = "Call"
    /\ DoublewordNodes(irp.irgs[1].nodes, lenv) = {}

(***************************************************************************)
(* PART 5.  What the two passes have in common: the Phis of a block that   *)
(* gets or loses a predecessor, and the resources of a graph.              *)
(***************************************************************************)
InitRewrite == InitLower \/ InitRewire

NextRewrite == Next \/ NextRewire

SpecRewrite == InitRewrite /\ [][NextRewrite]_vars

\* C2: the Phi-arity invariant.  In the lowering, where add_block_cf_input
\* gives blocks one more predecessor, and in unroll_loop, where
\* rewire_successor_block and the header cases of rewire_node add
\* predecessors and remove_block_input takes one away, after every step
\* every Phi has as many inputs as its block has control-flow predecessors,
\* and input i of the Phi comes from a block from which predecessor i of the
\* block is reached.
C2_PhiArity ==
    scen \in {"lower", "rewire"} =>
        \A n \in 1..Len(nodes) :
            nodes[n].op = "Phi" => PhiMatchesBlock(nodes, n)

\* lower_Cond has given the block of two Phis a third predecessor
C2_Witness ==
    /\ scen = "lower" /\ "CF_CHANGED" \in lenv.flags
    /\ \E n \in 1..Len(nodes) :
           /\ nodes[n].op = "Phi" /\ is_high(lenv, nodes[n].mode)
           /\ Len(nodes[n].ins) = 3
           /\ Len(nodes[nodes[n].blk].ins) = 3

InitResources == InitLower \/ InitUnroll

NextResources == Next \/ NextUnroll

SpecResources == InitResources /\ [][NextResources]_vars

\* C6: resources are reserved and freed in pairs.  lower_dw_ops holds
\* PHI_LIST and IRN_LINK of the graph at hand from before the prepare walk
\* until it turns to the next graph, whether the graph was lowered or not,
\* and holds nothing of any graph otherwise, so that it never reserves
\* what is held and nothing is held when it returns; unroll_loops holds
\* IRN_LINK while it goes through the loop tree and nothing before and
\* after.
C6_ResourcePairs ==
    /\ scen = "lower" =>
           /\ pc \in {"ld_prepare", "ld_lower", "ld_waitq"}
                 => reserved = {"PHI_LIST", "IRN_LINK"}
           /\ pc \in {"ld_call", "ld_graph", "ld_returned"}
                 => /\ reserved = {}
                    /\ \A i \in 1..Len(irp.irgs) : irp.irgs[i].reserved = {}
    /\ scen = "unroll" =>
           /\ pc = "ul_loops" => reserved = {"IRN_LINK"}
           /\ pc \in {"ul_enter", "returned"} => reserved = {}

\* lower_dw_ops has returned from a program of two graphs of which it has
\* lowered one and left the other
C6_Witness ==
    /\ scen = "lower" /\ pc = "ld_returned" /\ ~irp.param.null
    /\ Len(irp.irgs) = 2
    /\ \E i \in 1..2 : "CONSISTENT_OUTS" \notin irp.irgs[i].props
    /\ \E i \in 1..2 : irp.irgs[i].props = LowerProps
    /\ \A i \in 1..2 : irp.irgs[i].reserved = {}

(***************************************************************************)
(* The single lowering functions on SpecOps.  The pair of a node is read   *)
(* from lenv.entries while the graph is in work.                           *)
(***************************************************************************)
\* node n of the graph in work has a pair with both words
HasPair(n) ==
    /\ scen = "lower"
    /\ pc \in {"ld_lower", "ld_waitq"}
    /\ n <= Len(lenv.entries)
    /\ lenv.entries[n].has
    /\ lenv.entries[n].low_word # 0

LowOf(n) == nodes[lenv.entries[n].low_word]

HighOf(n) == nodes[lenv.entries[n].high_word]

\* the size of a word and the number of its values
HalfBits == lenv.tv_mode_bits

HalfRange == 2 ^ HalfBits

\* C11: the split of a constant.  The pair of every doubleword Const c is
\* two Consts: the low word is c mod 2^(W/2) in the unsigned word mode, the
\* high word is c shifted right arithmetically by W/2 in the word mode of
\* the signedness of c (a negative number for a signed c below 0), and
\* low + 2^(W/2) * high is c modulo 2^W.
C11_ConstSplit ==
    \A n \in 1..Len(nodes) :
        (HasPair(n) /\ nodes[n].op = "Const" /\ is_high(lenv, nodes[n].mode))
        => LET c      == nodes[n].val
               signed == nodes[n].mode = lenv.high_signed
               shr    == (c \div HalfRange) % HalfRange
           IN  /\ LowOf(n).op = "Const"
               /\ LowOf(n).mode = lenv.low_unsigned
               /\ LowOf(n).val = c % HalfRange
               /\ HighOf(n).op = "Const"
               /\ HighOf(n).mode = (IF signed THEN lenv.low_signed
                                    ELSE lenv.low_unsigned)
               /\ HighOf(n).val = (IF signed /\ shr >= HalfRange \div 2
                                   THEN shr - HalfRange ELSE shr)
               /\ (LowOf(n).val + HalfRange * HighOf(n).val
                      - c) % (HalfRange * HalfRange) = 0

\* the constants 0x01FF and -257 of 16 bits are split into 0xFF and 0x01
\* and into 0xFF and -2
C11_Witness ==
    \E n \in 1..Len(nodes) :
        /\ HasPair(n) /\ nodes[n].op = "Const"
        /\ \/ /\ nodes[n].mode = lenv.high_unsigned /\ nodes[n].val = 511
              /\ LowOf(n).val = 255 /\ HighOf(n).val = 1
              /\ HighOf(n).mode = lenv.low_unsigned
           \/ /\ nodes[n].mode = lenv.high_signed /\ nodes[n].val = -257
              /\ LowOf(n).val = 255 /\ HighOf(n).val = -2

(***************************************************************************)
(* The values of nodes.  A value is the bit pattern of its mode, a number  *)
(* from 0; a boolean is 0 or 1.  The shift count is taken modulo the       *)
(* modulo shift of the mode if that is not 0: setup_modes gives the word   *)
(* modes half the modulo shift of the doubleword modes.                    *)
(***************************************************************************)
\* the words that are taken for the operands
SampleWords == {0, 1, 90, 128, 255}

ModeBits(mode) == IF is_high(lenv, mode) THEN 2 * HalfBits ELSE HalfBits

ModeSigned(mode) == mode \in {lenv.high_signed, lenv.low_signed, "Is"}

ModuloShift(mode) ==
    IF is_high(lenv, mode) THEN 2 * lenv.modulo_shift ELSE lenv.modulo_shift

\* the number that a bit pattern stands for in a signed mode
AsSigned(a, bits) == IF a >= 2 ^ (bits - 1) THEN a - 2 ^ bits ELSE a

ShiftCount(cnt, ms) == IF ms # 0 THEN cnt % ms ELSE cnt

ShlValue(a, cnt, bits, ms) ==
    IF ShiftCount(cnt, ms) >= bits THEN 0
    ELSE (a * 2 ^ ShiftCount(cnt, ms)) % 2 ^ bits

ShrValue(a, cnt, bits, ms) ==
    IF ShiftCount(cnt, ms) >= bits THEN 0
    ELSE a \div 2 ^ ShiftCount(cnt, ms)

ShrsValue(a, cnt, bits, ms) ==
    IF ShiftCount(cnt, ms) >= bits
    THEN (IF AsSigned(a, bits) < 0 THEN 2 ^ bits - 1 ELSE 0)
    ELSE (AsSigned(a, bits) \div 2 ^ ShiftCount(cnt, ms)) % 2 ^ bits

ShiftValue(op, a, cnt, bits, ms) ==
    CASE op = "Shl" -> ShlValue(a, cnt, bits, ms)
      [] op = "Shr" -> ShrValue(a, cnt, bits, ms)
      [] op = "Shrs" -> ShrsValue(a, cnt, bits, ms)

\* bit by bit
RECURSIVE BitwiseValue(_, _, _, _)
BitwiseValue(op, a, b, bits) ==
    IF bits = 0 THEN 0
    ELSE LET x == a % 2
             y == b % 2
             z == CASE op = "And" -> x * y
                    [] op = "Or"  -> IF x + y > 0 THEN 1 ELSE 0
                    [] op = "Eor" -> (x + y) % 2
         IN  z + 2 * BitwiseValue(op, a \div 2, b \div 2, bits - 1)

\* the relation pnc between two numbers
RelationHolds(pnc, a, b) ==
    CASE pnc = "Eq" -> a = b
      [] pnc = "Lg" -> a # b
      [] pnc = "Lt" -> a < b
      [] pnc = "Le" -> a <= b
      [] pnc = "Gt" -> a > b
      [] pnc = "Ge" -> a >= b
      [] pnc = "False" -> FALSE
      [] pnc = "True" -> TRUE

NumberOf(a, mode) ==
    IF ModeSigned(mode) THEN AsSigned(a, ModeBits(mode)) ELSE a

\* the value of node n where the nodes of DOMAIN leaf have the given values
RECURSIVE EvalNode(_, _, _)
EvalNode(ns, n, leaf) ==
    LET nd   == ns[n]
        bits == IF nd.mode = "b" THEN 1 ELSE ModeBits(nd.mode)
        in(i) == EvalNode(ns, nd.ins[i], leaf)
    IN  IF n \in DOMAIN leaf THEN leaf[n]
        ELSE CASE nd.op = "Const" -> nd.val % 2 ^ bits
               [] nd.op = "Id" -> in(1)
               [] nd.op = "Conv" ->
                      NumberOf(in(1), ns[nd.ins[1]].mode) % 2 ^ bits
               [] nd.op \in {"Shl", "Shr", "Shrs"} ->
                      ShiftValue(nd.op, in(1), in(2), bits,
                                 ModuloShift(nd.mode))
               [] nd.op \in {"And", "Or", "Eor"} ->
                      BitwiseValue(nd.op, in(1), in(2), bits)
               [] nd.op = "Not" -> 2 ^ bits - 1 - in(1)
               [] nd.op = "Mux" -> IF in(1) = 1 THEN in(3) ELSE in(2)
               [] nd.op = "Proj" /\ ns[nd.ins[1]].op = "Cmp" ->
                      LET cmp == ns[nd.ins[1]]
                          m   == ns[cmp.ins[1]].mode
                      IN  IF RelationHolds(
                                 nd.sym,
                                 NumberOf(EvalNode(ns, cmp.ins[1], leaf), m),
                                 NumberOf(EvalNode(ns, cmp.ins[2], leaf), m))
                          THEN 1 ELSE 0

\* the values lo and hi for the two words of the pair of node n
PairLeaf(n, lo, hi) ==
    (lenv.entries[n].low_word :> lo) @@ (lenv.entries[n].high_word :> hi)

\* the doubleword that the pair of node n stands for
PairValue(n, leaf) ==
    EvalNode(nodes, lenv.entries[n].low_word, leaf)
        + HalfRange * EvalNode(nodes, lenv.entries[n].high_word, leaf)

\* a doubleword shift whose count is a Const of at least the size of a word
IsWordShift(n) ==
    /\ nodes[n].op \in {"Shl", "Shr", "Shrs"}
    /\ is_high(lenv, nodes[n].mode)
    /\ nodes[nodes[n].ins[2]].op = "Const"
    /\ nodes[nodes[n].ins[2]].val >= HalfBits

\* node w is a result of the Call of an emulation function for a shift
IsShiftCallResult(w) ==
    /\ nodes[w].op = "Proj"
    /\ nodes[nodes[w].ins[1]].op = "Proj"
    /\ LET call == nodes[nodes[nodes[w].ins[1]].ins[1]]
       IN  /\ call.op = "Call"
           /\ call.val \in {irp.shiftop_tp_u, irp.shiftop_tp_s}

\* the pair of the shift n is folded from the pair of its left operand
FoldedShift(n) ==
    LET x == nodes[n].ins[1]
        c == nodes[nodes[n].ins[2]].val
    IN  /\ ~IsShiftCallResult(lenv.entries[n].low_word)
        /\ ~IsShiftCallResult(lenv.entries[n].high_word)
        /\ nodes[n].op = "Shl" =>
               LowOf(n).op = "Const" /\ LowOf(n).val = 0
        /\ nodes[n].op = "Shr" =>
               HighOf(n).op = "Const" /\ HighOf(n).val = 0
        /\ nodes[n].op = "Shrs" =>
               /\ HighOf(n).op = "Shrs"
               /\ HighOf(n).ins[1] = lenv.entries[x].high_word
               /\ nodes[HighOf(n).ins[2]].val = HalfBits - 1
        /\ \A lo \in SampleWords, hi \in SampleWords :
               PairValue(n, PairLeaf(x, lo, hi))
                   = ShiftValue(nodes[n].op, lo + HalfRange * hi, c,
                                2 * HalfBits, ModuloShift(nodes[n].mode))

\* C12: a doubleword shift by a Const c >= W/2 is folded.  No Call is made
\* for it: Shl has the low word Const 0 and the high word low_x << (c - W/2),
\* Shr the high word Const 0 and the low word high_x >> (c - W/2), Shrs the
\* low word high_x >>s (c - W/2) and the high word high_x >>s (W/2 - 1); and
\* for every value of x the pair that the shift gets has the value of the
\* doubleword shift.
C12_FoldedShift ==
    [][\A n \in 1..Len(nodes) :
          (~HasPair(n) /\ HasPair(n)' /\ IsWordShift(n)) => FoldedShift(n)'
      ]_vars

\* a << 9 of 16 bits is folded into the high word Shl(low_a, 1) and the low
\* word Const 0
C12_Witness ==
    \E n \in 1..Len(nodes) :
        /\ HasPair(n) /\ IsWordShift(n) /\ nodes[n].op = "Shl"
        /\ nodes[nodes[n].ins[2]].val = HalfBits + 1
        /\ LowOf(n).op = "Const" /\ LowOf(n).val = 0
        /\ HighOf(n).op = "Shl"
        /\ nodes[HighOf(n).ins[1]].op = "Conv"
        /\ nodes[HighOf(n).ins[1]].ins[1]
              = lenv.entries[nodes[n].ins[1]].low_word
        /\ nodes[HighOf(n).ins[2]].val = 1
        /\ \A k \in 1..Len(nodes) : nodes[k].op # "Call"

(***************************************************************************)
(* Compares.  A doubleword operand is a Const or has the values lo and hi  *)
(* for the words of its pair.                                              *)
(***************************************************************************)
\* node sel is the Proj of a Cmp of doublewords
IsDwCmpProj(ns, sel) ==
    /\ ns[sel].op = "Proj" /\ ns[sel].mode = "b"
    /\ ns[ns[sel].ins[1]].op = "Cmp"
    /\ is_high(lenv, ns[ns[ns[sel].ins[1]].ins[1]].mode)

CmpLeft(sel) == nodes[nodes[sel].ins[1]].ins[1]

CmpRight(sel) == nodes[nodes[sel].ins[1]].ins[2]

OperandLeaf(x, lo, hi) ==
    IF nodes[x].op = "Const" THEN <<>> ELSE PairLeaf(x, lo, hi)

OperandNumber(x, lo, hi) ==
    NumberOf(IF nodes[x].op = "Const"
             THEN nodes[x].val % (HalfRange * HalfRange)
             ELSE lo + HalfRange * hi,
             nodes[x].mode)

\* the doubleword compare of sel holds for the operands al:ah and bl:bh
DwRelationHolds(sel, al, ah, bl, bh) ==
    RelationHolds(nodes[sel].sym, OperandNumber(CmpLeft(sel), al, ah),
                  OperandNumber(CmpRight(sel), bl, bh))

CmpLeaf(sel, al, ah, bl, bh) ==
    OperandLeaf(CmpLeft(sel), al, ah) @@ OperandLeaf(CmpRight(sel), bl, bh)

\* the Proj of Cond c for the outcome v and the block it leads to
CondProj(ns, c, v) ==
    CHOOSE p \in 1..Len(ns) :
        ns[p].op = "Proj" /\ ns[p].ins = <<c>> /\ ns[p].val = v

BlockAfter(ns, p) ==
    CHOOSE b \in 1..Len(ns) :
        ns[b].op = "Block" /\ \E i \in 1..Len(ns[b].ins) : ns[b].ins[i] = p

\* the block that is reached from Cond c through the blocks above base
RECURSIVE CondTarget(_, _, _, _)
CondTarget(ns, c, leaf, base) ==
    LET v == EvalNode(ns, ns[c].ins[1], leaf)
        b == BlockAfter(ns, CondProj(ns, c, v))
    IN  IF b <= base THEN b
        ELSE CondTarget(ns, CHOOSE k \in 1..Len(ns) :
                                ns[k].op = "Cond" /\ ns[k].blk = b,
                        leaf, base)

\* the Cond that decides in the block of Cond c after the step to ns
FirstCond(ns, c, base) ==
    LET new == {k \in (base + 1)..Len(ns) :
                   ns[k].op = "Cond" /\ ns[k].blk = ns[c].blk}
    IN  IF new = {} THEN c ELSE CHOOSE k \in new : \A j \in new : k <= j

\* the step lowers Cond c, which decides on a compare of doublewords
LowersCond(c) ==
    /\ HasPair(CmpLeft(nodes[c].ins[1]))
    /\ \E p \in 1..Len(nodes) :
           nodes[p].op = "Proj" /\ nodes[p].ins = <<c>> /\ nodes[p].val = 1
    /\ \/ nodes'[c].ins # nodes[c].ins
       \/ nodes'[CondProj(nodes, c, 1)].op = "Id"

CondDecides(c) ==
    LET sel  == nodes[c].ins[1]
        dstT == BlockAfter(nodes, CondProj(nodes, c, 1))
        dstF == BlockAfter(nodes, CondProj(nodes, c, 0))
    IN  \A al \in SampleWords, ah \in SampleWords, bl \in SampleWords,
           bh \in SampleWords :
            CondTarget(nodes', FirstCond(nodes', c, Len(nodes)),
                       CmpLeaf(sel, al, ah, bl, bh), Len(nodes))
                = IF DwRelationHolds(sel, al, ah, bl, bh) THEN dstT
                  ELSE dstF

\* x == 0 and x != 0: the selector is (lo | hi) ==/!= 0, no Block is new
IsNullCompare(sel) ==
    /\ nodes[CmpRight(sel)].op = "Const" /\ nodes[CmpRight(sel)].val = 0
    /\ nodes[sel].sym \in {"Eq", "Lg"}

NullSelector(c) ==
    LET sel == nodes[c].ins[1]
        new == nodes'[nodes'[c].ins[1]]
        cmp == nodes'[new.ins[1]]
        or  == nodes'[cmp.ins[1]]
    IN  /\ \A k \in (Len(nodes) + 1)..Len(nodes') : nodes'[k].op # "Block"
        /\ nodes'[c].op = "Cond"
        /\ new.op = "Proj" /\ new.sym = nodes[sel].sym /\ cmp.op = "Cmp"
        /\ nodes'[cmp.ins[2]].op = "Const" /\ nodes'[cmp.ins[2]].val = 0
        /\ or.op = "Or"
        /\ nodes'[or.ins[1]].ins
              = <<lenv.entries[CmpLeft(sel)].low_word>>
        /\ nodes'[or.ins[2]].ins
              = <<lenv.entries[CmpLeft(sel)].high_word>>

\* the step replaces input i of node m, the Proj of a compare of
\* doublewords, by a tree of booleans
LowersBool(m, i) ==
    /\ nodes[m].mode = "b" \/ nodes[m].op \in {"Mux", "Conv"}
    /\ i <= Len(nodes[m].ins)
    /\ nodes[m].ins[i] # 0
    /\ IsDwCmpProj(nodes, nodes[m].ins[i])
    /\ nodes'[m].ins[i] # nodes[m].ins[i]

TreeDecides(m, i) ==
    LET sel == nodes[m].ins[i]
    IN  \A al \in SampleWords, ah \in SampleWords, bl \in SampleWords,
           bh \in SampleWords :
            EvalNode(nodes', nodes'[m].ins[i], CmpLeaf(sel, al, ah, bl, bh))
                = IF DwRelationHolds(sel, al, ah, bl, bh) THEN 1 ELSE 0

\* C13: the lowered compares decide like the doubleword compare.  When
\* lower_Cond has rebuilt a Cond on a compare of doublewords, then for all
\* values of the operands the control flow from the block of the Cond
\* arrives at the old target of the true Proj if the relation holds and at
\* the old target of the false Proj if not; when lower_ops has replaced the
\* Proj of such a compare at a Mux, a Conv or a boolean node, the new
\* boolean has the value of the relation.  For == 0 and != 0 the Cond gets
\* the selector (lo | hi) ==/!= 0 and no Block is made.
C13_ComparesDecideAlike ==
    [][/\ \A c \in 1..Len(nodes) :
             (/\ scen = "lower" /\ pc \in {"ld_lower", "ld_waitq"}
              /\ nodes[c].op = "Cond"
              /\ IsDwCmpProj(nodes, nodes[c].ins[1])
              /\ LowersCond(c))
             => /\ CondDecides(c)
                /\ IsNullCompare(nodes[c].ins[1]) => NullSelector(c)
       /\ \A m \in 1..Len(nodes) : \A i \in 1..3 :
             (/\ scen = "lower" /\ pc \in {"ld_lower", "ld_waitq"}
              /\ LowersBool(m, i))
             => TreeDecides(m, i)
      ]_vars

\* a <= b of signed doublewords has become three Conds in three blocks, and
\* a Mux has got the tree for a > b
C13_Witness ==
    /\ scen = "lower" /\ pc \in {"ld_lower", "ld_waitq"}
    /\ \/ /\ "CF_CHANGED" \in lenv.flags
          /\ \E c \in 1..Len(nodes) :
                 /\ nodes[c].op = "Cond"
                 /\ IsDwCmpProj(nodes, nodes[c].ins[1])
                 /\ nodes[nodes[c].ins[1]].sym = "Le"
                 /\ nodes[CmpLeft(nodes[c].ins[1])].mode = lenv.high_signed
                 /\ \E p \in 1..Len(nodes) :
                        nodes[p].op = "Id" /\ nodes[p].val = 1
                        /\ nodes[nodes[p].ins[1]].op = "Proj"
                        /\ nodes[nodes[nodes[p].ins[1]].ins[1]].blk
                               = nodes[c].blk
       \/ \E m \in 1..Len(nodes) :
              /\ nodes[m].op = "Mux"
              /\ nodes[nodes[m].ins[1]].op = "Or"
              /\ nodes[nodes[nodes[m].ins[1]].ins[1]].sym = "Gt"

(***************************************************************************)
(* C14.  The addresses of the two accesses of a doubleword Load or Store.  *)
(***************************************************************************)
\* the numbers of the two nodes of a pair
LowWord(n) == lenv.entries[n].low_word

HighWord(n) == lenv.entries[n].high_word

\* a Load or Store whose pair is the two accesses that replace it
IsSplitAccess(n) ==
    /\ nodes[n].op \in {"Load", "Store"}
    /\ HasPair(n)
    /\ LowWord(n) # 0
    /\ LowOf(n).op = nodes[n].op
    /\ HighOf(n).op = nodes[n].op

AddressOf(a) == nodes[a].ins[2]

\* x is the node adr + k
IsOffset(x, adr, k) ==
    /\ nodes[x].op = "Add"
    /\ nodes[x].ins[1] = adr
    /\ nodes[nodes[x].ins[2]].op = "Const"
    /\ nodes[nodes[x].ins[2]].val = k

\* the low and the high access of n are k bytes apart, in the byte order
SplitBy(n, k) ==
    LET adr == AddressOf(n)
    IN  IF irp.param.little_endian
        THEN /\ AddressOf(LowWord(n)) = adr
             /\ IsOffset(AddressOf(HighWord(n)), adr, k)
        ELSE /\ IsOffset(AddressOf(LowWord(n)), adr, k)
             /\ AddressOf(HighWord(n)) = adr

\* C14 as stated: the addresses of the low-word and the high-word access
\* of a doubleword Load or Store differ by W/8 bytes, the low word at addr
\* on little-endian and at addr + W/8 on big-endian targets.
C14_SplitByDoublewordBytes ==
    \A n \in 1..Len(nodes) :
        IsSplitAccess(n) => SplitBy(n, irp.param.doubleword_size \div 8)

\* C14 amended: the addresses of the low-word and the high-word access of
\* a doubleword Load or Store differ by W/16 bytes, the size of one word:
\* the low word is at addr and the high word at addr + W/16 on
\* little-endian targets, and the other way round on big-endian targets.
C14_SplitByWordBytes ==
    \A n \in 1..Len(nodes) :
        IsSplitAccess(n) => SplitBy(n, irp.param.doubleword_size \div 16)

\* a doubleword Store on a big-endian target has been split
C14_Witness ==
    \E n \in 1..Len(nodes) :
        /\ IsSplitAccess(n)
        /\ nodes[n].op = "Store"
        /\ ~irp.param.little_endian
        /\ AddressOf(HighWord(n)) = AddressOf(n)
        /\ nodes[AddressOf(LowWord(n))].op = "Add"

(***************************************************************************)
(* C15.  The memory chain through the two accesses of a doubleword Load or *)
(* Store, and the Projs of the access.                                     *)
(***************************************************************************)
\* this step gives the Load or Store n its two accesses
SplitsAccess(n) ==
    /\ scen = "lower" /\ pc \in {"ld_lower", "ld_waitq"}
    /\ nodes[n].op \in {"Load", "Store"}
    /\ n <= Len(lenv.entries)
    /\ lenv.entries[n].has /\ lenv.entries[n].low_word = 0
    /\ n <= Len(lenv'.entries)
    /\ lenv'.entries[n].low_word # 0

\* the Projs of n before the step
ProjsOf(n) ==
    {p \in 1..Len(nodes) : nodes[p].op = "Proj" /\ nodes[p].ins = <<n>>}

\* the Proj numbers lower_Load and lower_Store know
KnownProjs(n) ==
    IF nodes[n].op = "Load" THEN {"M", "X_except", "res"}
    ELSE {"M", "X_except"}

\* the mode of the high word of a value of the doubleword mode m
HighModeOf(m) ==
    IF m = lenv.high_signed THEN lenv.low_signed ELSE lenv.low_unsigned

\* after the step the two accesses are chained and the Projs of n hang on
\* them
ChainedAccesses(n) ==
    LET lo == lenv'.entries[n].low_word
        hi == lenv'.entries[n].high_word
    IN  /\ nodes'[lo].op = nodes[n].op
        /\ nodes'[hi].op = nodes[n].op
        /\ nodes'[lo].ins[1] = nodes[n].ins[1]
        /\ LET m == nodes'[nodes'[hi].ins[1]]
           IN  m.op = "Proj" /\ m.sym = "M" /\ m.ins = <<lo>>
        /\ \A p \in ProjsOf(n) :
               CASE nodes[p].sym = "M" -> nodes'[p].ins = <<hi>>
                 [] nodes[p].sym = "X_except" -> nodes'[p].ins = <<lo>>
                 [] OTHER ->
                      LET e == lenv'.entries[p]
                      IN  /\ e.has /\ e.low_word # 0
                          /\ nodes'[e.low_word].op = "Proj"
                          /\ nodes'[e.low_word].ins = <<lo>>
                          /\ nodes'[e.low_word].sym = "res"
                          /\ nodes'[e.low_word].mode = lenv.low_unsigned
                          /\ nodes'[e.high_word].op = "Proj"
                          /\ nodes'[e.high_word].ins = <<hi>>
                          /\ nodes'[e.high_word].sym = "res"
                          /\ nodes'[e.high_word].mode =
                                 HighModeOf(nodes[n].sym)

\* C15: the first of the two accesses that replace a doubleword Load or
\* Store takes the memory input of the original, the second takes the
\* memory Proj of the first; the memory Proj of the original moves to the
\* second access and its exception Proj to the first; the pair of the
\* result Proj of a Load is the result Proj of the low Load in the unsigned
\* word mode and the result Proj of the high Load in the mode of the high
\* word; a Proj with any other number stops the pass with an internal
\* error.
C15_MemoryChain ==
    [][\A n \in 1..Len(nodes) :
          SplitsAccess(n) =>
              IF \E p \in ProjsOf(n) : nodes[p].sym \notin KnownProjs(n)
              THEN pc' = "ld_panic"
                   /\ lenv'.panic = "unexpected Proj number"
              ELSE pc' # "ld_panic" /\ ChainedAccesses(n)
      ]_vars

\* a Load with a memory, an exception and a result Proj has been split:
\* the memory Proj hangs on the high Load, the exception Proj on the low
\* Load, and the result Proj has its pair
C15_Witness ==
    \E n \in 1..Len(nodes) :
        /\ IsSplitAccess(n)
        /\ nodes[n].op = "Load"
        /\ nodes[nodes[HighWord(n)].ins[1]].ins = <<LowWord(n)>>
        /\ \E p, q, r \in 1..Len(nodes) :
               /\ nodes[p].sym = "M" /\ nodes[p].ins = <<HighWord(n)>>
               /\ nodes[q].sym = "X_except"
               /\ nodes[q].ins = <<LowWord(n)>>
               /\ nodes[r].sym = "res" /\ nodes[r].ins = <<n>>
               /\ HasPair(r) /\ LowOf(r).ins = <<LowWord(n)>>

(***************************************************************************)
(* C16.  The method type lower_mtp makes.                                  *)
(***************************************************************************)
\* the number of doubleword entries of tps before position i
DwBefore(tps, i) ==
    Cardinality({j \in 1..(i - 1) : j <= Len(tps) /\ tps[j] \in DwModes})

\* the position of entry i of tps in the lowered list
NewPosition(tps, i) == i + DwBefore(tps, i)

\* tp is the primitive type of the unsigned (tp_u) or signed (tp_s) word
\* mode
IsWordType(tp, sign) ==
    /\ irp.tp_u = "WU" /\ irp.tp_s = "WS"
    /\ tp = IF sign THEN irp.tp_s ELSE irp.tp_u

\* low is tps with every doubleword entry replaced by two entries
ExpandsTo(tps, low) ==
    /\ Len(low) = Len(tps) + DwBefore(tps, Len(tps) + 1)
    /\ \A i \in 1..Len(tps) :
           LET k == NewPosition(tps, i)
           IN  CASE tps[i] = "Hs" ->
                        IsWordType(low[k], FALSE) /\ IsWordType(low[k + 1], TRUE)
                 [] tps[i] = "Hu" ->
                        IsWordType(low[k], FALSE)
                        /\ IsWordType(low[k + 1], FALSE)
                 [] OTHER -> low[k] = tps[i]

\* C16: the type lower_mtp has made for a method type with n parameters
\* and r results has every parameter and result of mode Hs or Hu replaced
\* by two consecutive entries, the unsigned word type first and then the
\* signed (Hs) or unsigned (Hu) word type, and every other entry kept, in
\* the original order; it has n plus the number of doubleword parameters
\* parameters and r plus the number of doubleword results results.
C16_LoweredMethodType ==
    scen = "lower" =>
        \A e \in irp.lowered_type :
            /\ ExpandsTo(irp.types[e[1]].params, irp.types[e[2]].params)
            /\ ExpandsTo(irp.types[e[1]].ress, irp.types[e[2]].ress)
            /\ is_lowered_type(irp, e[2])

\* the type (Iu, Hs) -> (Hu, Iu) has been lowered to a type of three
\* parameters and three results
C16_Witness ==
    /\ scen = "lower"
    /\ \E e \in irp.lowered_type :
           /\ irp.types[e[1]].params = <<"Iu", "Hs">>
           /\ irp.types[e[1]].ress = <<"Hu", "Iu">>
           /\ irp.types[e[2]].params = <<"Iu", irp.tp_u, irp.tp_s>>
           /\ irp.types[e[2]].ress = <<irp.tp_u, irp.tp_u, "Iu">>
           /\ irp.tp_u # irp.tp_s

(***************************************************************************)
(* C17.  The numbers of the argument and result Projs and the lowered      *)
(* method type.                                                            *)
(***************************************************************************)
Lowering == scen = "lower" /\ pc \in {"ld_lower", "ld_waitq"}

\* the type a method type was made from, or the type itself
OriginalType(tp) ==
    IF is_lowered_type(irp, tp) THEN get_associated_type(irp, tp) ELSE tp

\* the Projs of the tuple Proj t
TupleProjs(t) ==
    {p \in 1..Len(nodes) : nodes[p].op = "Proj" /\ nodes[p].ins = <<t>>}

\* the Proj of the arguments of the graph
ArgsProj ==
    {t \in 1..Len(nodes) : nodes[t].op = "Proj" /\ nodes[t].sym = "T_args"}

\* the Proj of the results of the Call n
ResultsProj(n) ==
    {t \in 1..Len(nodes) :
        nodes[t].op = "Proj" /\ nodes[t].sym = "T_result"
        /\ nodes[t].ins = <<n>>}

\* this step changes the Proj p: it gets a number or its pair
ProjLowered(p) ==
    \/ nodes'[p].val # nodes[p].val
    \/ /\ p <= Len(lenv.entries) /\ lenv.entries[p].has
       /\ lenv.entries[p].low_word = 0
       /\ lenv'.entries[p].low_word # 0

\* after the step the Proj p of the tuple t has the number of its entry in
\* the list low, which was made from the list tps; a doubleword Proj has
\* the pair of the Projs of its two entries
Renumbered(p, t, tps, low) ==
    LET k == NewPosition(tps, nodes[p].val + 1)
    IN  IF nodes[p].mode \in DwModes
        THEN LET e == lenv'.entries[p]
                 l == nodes'[e.low_word]
                 h == nodes'[e.high_word]
             IN  /\ e.has /\ e.low_word # 0
                 /\ l.op = "Proj" /\ l.ins = <<t>> /\ l.val = k - 1
                 /\ l.mode = lenv.low_unsigned /\ l.mode = low[k]
                 /\ h.op = "Proj" /\ h.ins = <<t>> /\ h.val = k
                 /\ h.mode = HighModeOf(nodes[p].mode)
                 /\ h.mode = low[k + 1]
        ELSE /\ nodes'[p].val = k - 1
             /\ nodes'[p].mode = low[k]

\* this step gives the Call n its new inputs, or its new type when only
\* results are doublewords
CallLowered(n) ==
    /\ nodes[n].op = "Call"
    /\ \/ nodes'[n].ins # nodes[n].ins
       \/ /\ nodes'[n].val # nodes[n].val
          /\ \/ lenv'.waitq = <<>>
             \/ lenv'.waitq[Len(lenv'.waitq)] # n

\* the Start node: the argument Projs and the type of the graph
StartRenumbers ==
    (\E t \in ArgsProj : \E p \in TupleProjs(t) : ProjLowered(p)) =>
        LET tp  == OriginalType(irp.irgs[lenv.i].ent)
            new == irp'.irgs[lenv.i].ent
        IN  /\ is_lowered_type(irp', new)
            /\ \A t \in ArgsProj : \A p \in TupleProjs(t) :
                   Renumbered(p, t, irp.types[tp].params,
                              irp'.types[new].params)

\* a Call: its inputs, its type and its result Projs
CallRenumbers ==
    \A n \in 1..Len(nodes) :
        CallLowered(n) =>
            LET tp  == OriginalType(nodes[n].val)
                new == nodes'[n].val
            IN  /\ is_lowered_type(irp', new)
                /\ Len(nodes'[n].ins) = 2 + Len(irp'.types[new].params)
                /\ \A t \in ResultsProj(n) : \A p \in TupleProjs(t) :
                       Renumbered(p, t, irp.types[tp].ress,
                                  irp'.types[new].ress)

\* a Return: its inputs and the type of the graph
ReturnWidens ==
    \A n \in 1..Len(nodes) :
        (nodes[n].op = "Return" /\ nodes'[n].ins # nodes[n].ins) =>
            LET new == irp'.irgs[lenv.i].ent
            IN  /\ is_lowered_type(irp', new)
                /\ Len(nodes'[n].ins) = 1 + Len(irp'.types[new].ress)

\* C17: the new number of the argument Proj of parameter i (lower_Start)
\* and of the result Proj of result i (lower_Call) is i plus the number of
\* doubleword entries before position i, the position of the entry in the
\* type lower_mtp makes; a Proj that denoted a doubleword gets the pair of
\* the Proj with the new number in the unsigned word mode and the Proj with
\* the new number plus one in the mode of the high word; the new inputs of
\* a lowered Call or Return are as many values as the lowered type has
\* parameters or results.
C17_ProjNumbers ==
    [][(Lowering /\ Len(nodes') >= Len(nodes)) =>
           StartRenumbers /\ CallRenumbers /\ ReturnWidens
      ]_vars

\* the graph (Hs, Iu) -> (Iu, Hu) with its Call of the same type is
\* lowered: the argument Proj 1 and the result Proj 0 keep their modes, the
\* argument is number 2 now, and the Call has three parameters
C17_Witness ==
    /\ Lowering
    /\ \E n \in 1..Len(nodes) :
           /\ nodes[n].op = "Call" /\ Len(nodes[n].ins) = 5
           /\ is_lowered_type(irp, nodes[n].val)
           /\ irp.types[OriginalType(nodes[n].val)].params = <<"Hs", "Iu">>
           /\ \E t \in ResultsProj(n) : \E p \in TupleProjs(t) :
                  nodes[p].mode = "Hu" /\ HasPair(p) /\ LowOf(p).val = 1
    /\ \E t \in ArgsProj : \E p, q \in TupleProjs(t) :
           /\ nodes[p].mode = "Iu" /\ nodes[p].val = 2
           /\ nodes[q].mode = "Hs" /\ HasPair(q) /\ HighOf(q).val = 1

(***************************************************************************)
(* C18.  The loop over the wait queue.  The loop does nothing but take the *)
(* first node off the queue and attempt it again, so a round over the      *)
(* queue that leaves the pass where it was is repeated for ever.           *)
(***************************************************************************)
\* the pass is in the loop over the wait queue of a graph
Draining == scen = "lower" /\ pc = "ld_waitq"

\* k more turns of the loop `while (!pdeq_empty(waitq)) lower_ops(...)`
RECURSIVE drain_turns(_, _)
drain_turns(L, k) ==
    IF k = 0 \/ L.panic # "" \/ L.lenv.waitq = <<>> THEN L
    ELSE drain_turns(lower_ops([L EXCEPT !.lenv.waitq = Tail(@)],
                               Head(L.lenv.waitq)),
                     k - 1)

\* C18: the loop over the wait queue ends for every graph: a node on the
\* queue is attempted again only until the pairs of its operands are
\* there, every pair is there at some time and the queue becomes empty; no
\* node is put back for ever, so no round over a queue that is not empty
\* ends in the state it began in.
C18_DrainTerminates ==
    (Draining /\ lenv.waitq # <<>>)
        => drain_turns(LState, Len(lenv.waitq)) # LState

\* the queue holds nothing but a Return whose result, a Confirm, has an
\* empty pair for good: no node that can still be lowered is left
C18_Witness ==
    /\ Draining
    /\ Len(lenv.waitq) = 1
    /\ nodes[lenv.waitq[1]].op = "Return"
    /\ \E r \in 1..Len(nodes[lenv.waitq[1]].ins) :
           LET c == nodes[lenv.waitq[1]].ins[r]
           IN  /\ nodes[c].op = "Confirm"
               /\ lenv.entries[c].has
               /\ lenv.entries[c].low_word = 0

(***************************************************************************)
(* C19.  The pair of a node and the pairs of its operands.                 *)
(***************************************************************************)
\* the inputs of n that are doubleword values
DwOperands(n) ==
    {i \in 1..Len(nodes[n].ins) :
        nodes[n].ins[i] # 0 /\ nodes[nodes[n].ins[i]].mode \in DwModes}

\* the pair of the node o is empty
PairEmpty(o) == lenv.entries[o].low_word = 0

\* this step stores the first pair of n
GetsPair(n) ==
    /\ n <= Len(lenv.entries) /\ lenv.entries[n].has
    /\ lenv.entries[n].low_word = 0
    /\ n <= Len(lenv'.entries)
    /\ lenv'.entries[n].low_word # 0

\* a pair is written only when the pairs of all operands are there
WrittenWhenReady(n) ==
    GetsPair(n) => \A i \in DwOperands(n) : ~PairEmpty(nodes[n].ins[i])

\* the two Phis of the Phi n have the halves of the operands that are
\* there and a Dummy each for every other operand
PhiWithDummies(n) ==
    GetsPair(n) =>
        LET l == nodes'[lenv'.entries[n].low_word]
            h == nodes'[lenv'.entries[n].high_word]
        IN  /\ l.op = "Phi" /\ h.op = "Phi"
            /\ Len(l.ins) = Len(nodes[n].ins)
            /\ Len(h.ins) = Len(nodes[n].ins)
            /\ \A i \in 1..Len(nodes[n].ins) :
                   LET o == nodes[n].ins[i]
                   IN  IF PairEmpty(o)
                       THEN /\ nodes'[l.ins[i]].op = "Dummy"
                            /\ nodes'[h.ins[i]].op = "Dummy"
                            /\ lenv'.waitq # <<>>
                            /\ lenv'.waitq[Len(lenv'.waitq)] = n
                       ELSE /\ l.ins[i] = lenv.entries[o].low_word
                            /\ h.ins[i] = lenv.entries[o].high_word

\* this step puts the node n at the end of the wait queue
Enqueued(n) ==
    /\ lenv'.waitq # <<>>
    /\ lenv'.waitq[Len(lenv'.waitq)] = n
    /\ Len(lenv'.waitq) = IF pc = "ld_waitq" THEN Len(lenv.waitq)
                          ELSE Len(lenv.waitq) + 1

\* a node with a pair of its own is put on the queue because the pair of
\* an operand is empty
WaitsForOperand(n) ==
    (Enqueued(n) /\ n <= Len(lenv.entries) /\ lenv.entries[n].has)
        => \E i \in DwOperands(n) : PairEmpty(nodes[n].ins[i])

\* a node that is put on the queue keeps the pair it has
WaitsUnwritten(n) ==
    (Enqueued(n) /\ n <= Len(lenv.entries))
        => lenv'.entries[n] = lenv.entries[n]

\* no pair has one half only
BothHalves ==
    \A k \in 1..Len(lenv.entries) :
        /\ lenv.entries[k].low_word = 0 <=> lenv.entries[k].high_word = 0
        /\ lenv.entries[k].low_word # 0 => lenv.entries[k].has
        /\ lenv.entries[k].low_word <= Len(nodes)
        /\ lenv.entries[k].high_word <= Len(nodes)

\* C19 as stated: every lower function reads the pair of an operand only
\* after it has found it non-empty; if it is empty the node goes to the
\* wait queue and its own pair is not written; so no pair gets an empty
\* half, and a pair that is not empty has both halves.
C19_PairAfterOperands ==
    [][Lowering =>
           /\ \A n \in 1..Len(nodes) :
                  /\ WrittenWhenReady(n)
                  /\ WaitsForOperand(n)
                  /\ WaitsUnwritten(n)
           /\ BothHalves'
      ]_vars

\* C19 amended: every lower function but lower_Phi writes the pair of its
\* node only after it has found the pairs of all doubleword operands
\* non-empty, and puts the node on the wait queue otherwise; lower_Phi
\* stores the pair of two new Phis at its first attempt, with a Dummy in
\* place of every operand whose pair is still empty, and puts the Phi on
\* the wait queue if there is one; a node with a pair of its own is put
\* on the queue only for an empty operand pair and, unless it is a Phi,
\* keeps the pair it has; no pair has one half only.
C19_PairAfterOperandsButPhi ==
    [][Lowering =>
           /\ \A n \in 1..Len(nodes) :
                  /\ IF nodes[n].op = "Phi" THEN PhiWithDummies(n)
                     ELSE WrittenWhenReady(n) /\ WaitsUnwritten(n)
                  /\ WaitsForOperand(n)
           /\ BothHalves'
      ]_vars

\* a Phi on the wait queue has its two Phis, with a Dummy for the operand
\* that has no pair yet, and that operand waits on the queue without a
\* pair
C19_Witness ==
    /\ Lowering
    /\ \E k \in 1..Len(lenv.waitq) :
           /\ nodes[lenv.waitq[k]].op \in {"Sub", "And", "Not", "Minus"}
           /\ lenv.entries[lenv.waitq[k]].has
           /\ PairEmpty(lenv.waitq[k])
    /\ \E n \in 1..Len(nodes) :
           /\ nodes[n].op = "Phi" /\ HasPair(n)
           /\ \E k \in 1..Len(lenv.waitq) : lenv.waitq[k] = n
           /\ \E i \in DwOperands(n) :
                  /\ PairEmpty(nodes[n].ins[i])
                  /\ nodes[LowOf(n).ins[i]].op = "Dummy"
                  /\ nodes[HighOf(n).ins[i]].op = "Dummy"

(***************************************************************************)
(* C20.  The two Phis of a doubleword Phi.                                 *)
(***************************************************************************)
\* the Phi n has its pair
PhiLowered(n) ==
    /\ nodes[n].op = "Phi"
    /\ n <= Len(lenv.entries)
    /\ lenv.entries[n].low_word # 0

\* the Phis of the pairs have no Dummy input
NoDummyInput ==
    \A n \in 1..Len(nodes) :
        PhiLowered(n) =>
            \A w \in {lenv.entries[n].low_word, lenv.entries[n].high_word} :
                /\ nodes[w].op = "Phi"
                /\ Len(nodes[w].ins) = Len(nodes[n].ins)
                /\ \A i \in 1..Len(nodes[w].ins) :
                       nodes[nodes[w].ins[i]].op # "Dummy"

\* C20: a doubleword Phi is replaced by exactly one Phi of the low halves
\* and one Phi of the high halves, of its arity: once lower_Phi has stored
\* the pair, an attempt from the wait queue creates no node and leaves the
\* stored pair as it is (it only replaces Dummy inputs of these two Phis),
\* and when the queue is empty no Phi of a pair has a Dummy input.
C20_OnePairOfPhis ==
    [][(Lowering /\ pc' \in {"ld_lower", "ld_waitq"}) =>
           /\ \A n \in 1..Len(nodes) :
                  PhiLowered(n) =>
                      /\ lenv'.entries[n] = lenv.entries[n]
                      /\ (pc = "ld_waitq" /\ lenv.waitq # <<>>
                          /\ Head(lenv.waitq) = n)
                             => Len(nodes') = Len(nodes)
           /\ (pc' = "ld_waitq" /\ lenv'.waitq = <<>>) => NoDummyInput'
      ]_vars

\* the queue is empty and a signed doubleword Phi has left two Phis of the
\* low halves in its block: the one of the first attempt, which the nodes
\* lowered in between use, and the one of the stored pair
C20_Witness ==
    /\ Draining /\ lenv.waitq = <<>>
    /\ \E n \in 1..Len(nodes) :
           /\ PhiLowered(n) /\ nodes[n].mode = "Hs"
           /\ \E k \in 1..Len(nodes) :
                  /\ k # lenv.entries[n].low_word
                  /\ nodes[k].op = "Phi"
                  /\ nodes[k].mode = lenv.low_unsigned
                  /\ nodes[k].blk = nodes[n].blk
                  /\ \E u \in 1..Len(nodes) :
                         /\ nodes[u].op # "Phi"
                         /\ \E i \in 1..Len(nodes[u].ins) :
                                nodes[u].ins[i] = k

(***************************************************************************)
(* C21.  The property flags of a graph when lower_dw_ops is done with it.  *)
(***************************************************************************)
\* the step in which lower_dw_ops puts the graph lenv.i back
GraphDone ==
    /\ scen = "lower"
    /\ pc \in {"ld_prepare", "ld_waitq"}
    /\ pc' = "ld_graph"

Blocks(ns) == {n \in 1..Len(ns) : ns[n].op = "Block"}

\* the graph as it was handed over, and as it is given back
GraphBefore == irp.irgs[lenv.i]

GraphAfter == irp'.irgs[lenv.i]

NewBlocks == Cardinality(Blocks(GraphAfter.nodes))
                 > Cardinality(Blocks(GraphBefore.nodes))

\* the flags of the dominance, the extended blocks and the loop tree
ControlFlowFlags ==
    {"CONSISTENT_DOMINANCE", "CONSISTENT_EXTBLK", "CONSISTENT_LOOPINFO"}

\* the graph or the type of its entity is no longer what it was
SomethingLowered ==
    \/ GraphAfter.nodes # GraphBefore.nodes
    \/ GraphAfter.ent # GraphBefore.ent

\* C21: when lower_dw_ops is done with a graph, a graph in which something
\* was lowered has lost CONSISTENT_OUTS; dominance, extended-block and loop
\* information are marked inconsistent if lowering created new Blocks and
\* are as they were if it created none; a graph for which MUST_BE_LOWERED
\* was never set has the nodes and all the property flags it had.
C21_Finalize ==
    [][GraphDone =>
          /\ SomethingLowered => "CONSISTENT_OUTS" \notin GraphAfter.props
          /\ GraphAfter.props \subseteq GraphBefore.props
          /\ \A f \in ControlFlowFlags :
                IF NewBlocks THEN f \notin GraphAfter.props
                ELSE f \in GraphAfter.props <=> f \in GraphBefore.props
          /\ "MUST_BE_LOWERED" \notin lenv.flags =>
                /\ GraphAfter.props = GraphBefore.props
                /\ GraphAfter.nodes = GraphBefore.nodes]_vars

\* lower_dw_ops has returned from a graph whose Cond on a doubleword Cmp
\* was split into new Blocks: only the out-edge flag and the three flags of
\* the control flow are gone
C21_Witness ==
    /\ scen = "lower" /\ pc = "ld_returned"
    /\ Len(irp.irgs) = 1
    /\ Cardinality(Blocks(irp.irgs[1].nodes)) > 5
    /\ irp.irgs[1].props = {}

\* a Cond on a doubleword compare with zero was lowered without a new
\* Block: the three flags of the control flow are kept
C21_ZeroCompareKeepsDominance ==
    /\ scen = "lower" /\ pc = "ld_returned"
    /\ Len(irp.irgs) = 1
    /\ \E n \in 1..Len(irp.irgs[1].nodes) : irp.irgs[1].nodes[n].op = "Or"
    /\ irp.irgs[1].props = ControlFlowFlags

(***************************************************************************)
(* C22.  The cache of the emulation functions.                             *)
(***************************************************************************)
TripleOf(e) == <<e.op, e.imode, e.omode>>

\* the nodes that get their pair in this step from a Call of an emulation
\* function: the low word is result 0 of a Call whose address is a new
\* SymConst
EmulatedNow ==
    {n \in 1..Len(nodes) :
        /\ n <= Len(lenv.entries) /\ n <= Len(lenv'.entries)
        /\ lenv.entries[n].low_word = 0
        /\ lenv'.entries[n].low_word > Len(nodes)
        /\ nodes[n].op \in {"Add", "Sub", "Mul", "Shl", "Shr", "Shrs",
                            "Minus"}
        /\ LET low == nodes'[lenv'.entries[n].low_word]
           IN  /\ low.op = "Proj"
               /\ nodes'[low.ins[1]].op = "Proj"
               /\ nodes'[nodes'[low.ins[1]].ins[1]].op = "Call"}

\* the entity that the Call made for n addresses
AddressedEntity(n) ==
    LET low  == nodes'[lenv'.entries[n].low_word]
        call == nodes'[nodes'[low.ins[1]].ins[1]]
    IN  nodes'[call.ins[2]].val

\* every triple has at most one entry and every entity at most one triple
CacheIsOneToOne(fkt) ==
    \A e1 \in fkt, e2 \in fkt :
        (TripleOf(e1) = TripleOf(e2) \/ e1.ent = e2.ent) => e1 = e2

\* C22: in every step of lower_dw_ops, in whatever graph and call, the
\* cache keeps its entries and has one entry per triple and one entity per
\* entry; an entity is created only together with a new cache entry, so at
\* most once for a triple (opcode, input mode, output mode); and the Call
\* made for a node addresses the entity that the cache holds for the
\* triple of that node, so that all Calls of a triple address one entity.
C22_IntrinsicCache ==
    [][scen = "lower" =>
          /\ irp.intrinsic_fkt \subseteq irp'.intrinsic_fkt
          /\ CacheIsOneToOne(irp'.intrinsic_fkt)
          /\ Len(irp'.entities) - Len(irp.entities)
                = Cardinality(irp'.intrinsic_fkt \ irp.intrinsic_fkt)
          /\ \A e \in irp'.intrinsic_fkt \ irp.intrinsic_fkt :
                /\ e.ent > Len(irp.entities)
                /\ \A o \in irp.intrinsic_fkt : TripleOf(o) # TripleOf(e)
          /\ \A n \in EmulatedNow :
                LET half == HalfMode(lenv, nodes[n].mode)
                IN  [op |-> nodes[n].op, imode |-> half, omode |-> half,
                     ent |-> AddressedEntity(n)] \in irp'.intrinsic_fkt]_vars

\* the SymConsts of the entities that a graph addresses
AddressedBy(ns) ==
    {ns[n].val : n \in {k \in 1..Len(ns) :
                           ns[k].op = "SymConst" /\ ns[k].sym = "addr_ent"}}

\* both graphs of a program call the same emulation function, which was
\* created once
C22_Witness ==
    /\ scen = "lower" /\ pc = "ld_returned"
    /\ Len(irp.irgs) = 2
    /\ Cardinality(irp.intrinsic_fkt) = 1
    /\ Len(irp.entities) = 1
    /\ AddressedBy(irp.irgs[1].nodes) = {1}
    /\ AddressedBy(irp.irgs[2].nodes) = {1}

\* the graphs of a program call the emulation functions of two triples
C22_TwoTriples ==
    /\ scen = "lower" /\ pc = "ld_returned"
    /\ Len(irp.irgs) = 2
    /\ Cardinality(irp.intrinsic_fkt) = 2
    /\ AddressedBy(irp.irgs[1].nodes) # AddressedBy(irp.irgs[2].nodes)

(***************************************************************************)
(* C23.  The unroll factor for a known trip count.  find_optimal_factor    *)
(* is applied to every trip count up to MaxTrips and every maximum up to   *)
(* MaxFactor, as the code behind the trip count computation of             *)
(* find_suitable_factor applies it.                                        *)
(***************************************************************************)
MaxTrips == 24

\* the end of find_suitable_factor: the factor for the trip count and the
\* decision to unroll fully
factor_for_loop_count(loop_count, max, fully_unroll) ==
    LET factor == find_optimal_factor(loop_count, max)
    IN  [factor |-> factor,
         fully_unroll |-> IF factor = loop_count THEN TRUE
                          ELSE fully_unroll]

InitFactor ==
    /\ scen = "factor"
    /\ pc = "ff_count"
    /\ IdleVerify
    /\ IdleLower
    /\ NoGraph
    /\ \E number \in 1..MaxTrips, max \in 1..MaxFactor :
          up = [loop_count |-> number, max |-> max, factor |-> 1,
                fully_unroll |-> FALSE]

\* the trip count is known: the factor is chosen
ChooseFactor ==
    /\ scen = "factor" /\ pc = "ff_count"
    /\ LET r == factor_for_loop_count(up.loop_count, up.max,
                                      up.fully_unroll)
       IN  up' = [up EXCEPT !.factor = r.factor,
                            !.fully_unroll = r.fully_unroll]
    /\ pc' = "ff_chosen"
    /\ UNCHANGED <<scen, varsV, varsL, varsG>>

NextFactor == ChooseFactor

SpecFactor == InitFactor /\ [][NextFactor]_vars

IsPowerOfTwo(p) == \E k \in 0..p : 2 ^ k = p

\* the powers of two that divide n and do not exceed max
PowerDivisors(n, max) ==
    {p \in 1..max : IsPowerOfTwo(p) /\ n % p = 0}

LargestOf(S) == CHOOSE p \in S : \A q \in S : q <= p

FactorChosen == scen = "factor" /\ pc = "ff_chosen"

\* C23 as stated: for every trip count N >= 1 and maximum M the factor is
\* the largest power of two that divides N and does not exceed M, and the
\* loop is marked for full unrolling exactly when the factor equals N.
C23_LargestPowerOfTwoDivisor ==
    FactorChosen =>
        /\ up.factor = LargestOf(PowerDivisors(up.loop_count, up.max))
        /\ up.fully_unroll <=> (up.factor = up.loop_count)

\* C23 as the code has it: a trip count N <= M is its own factor, whether
\* it is a power of two or not, and the loop is marked for full unrolling;
\* for N > M the factor is the largest power of two from 2 to M that
\* divides N, it is 0 (no unrolling) if there is none, and the loop is not
\* marked.  The loop is marked exactly when the factor equals N.
C23_TripCountOrPowerOfTwo ==
    FactorChosen =>
        LET N    == up.loop_count
            M    == up.max
            fits == PowerDivisors(N, M) \ {1}
        IN  /\ up.fully_unroll <=> (up.factor = N)
            /\ IF N <= M THEN up.factor = N
               ELSE IF fits = {} THEN up.factor = 0
               ELSE up.factor = LargestOf(fits)

\* a trip count of 6 with a maximum of 8 is unrolled fully by 6
C23_Witness ==
    /\ FactorChosen
    /\ up.loop_count = 6 /\ up.max = 8
    /\ up.factor = 6 /\ up.fully_unroll

\* a trip count of 24 with a maximum of 4 is unrolled by 4
C23_PowerOfTwoChosen ==
    /\ FactorChosen
    /\ up.loop_count = 24 /\ up.max = 4
    /\ up.factor = 4 /\ ~up.fully_unroll

(***************************************************************************)
(* C24.  get_loop_header on loop trees whose elements come in any order:   *)
(* the while loop, the loop that is entered at two blocks, and a loop with *)
(* a nested loop.                                                          *)
(***************************************************************************)
\* while (?) { while (?) { } } with the blocks: 3 outer header, 7 inner
\* header, 11 inner body, 13 outer latch, 15 exit
NestedNodes ==
    << Blk(<<>>, 1),                          \*  1 start block
       Nd("Jmp", "X", 1, <<>>),               \*  2
       Blk(<<2, 14>>, 2),                     \*  3 header of the outer loop
       MkNode("Unknown", "b", 1, <<>>, 0, "", FALSE, 0),        \*  4
       Nd("Cond", "T", 3, <<4>>),             \*  5
       PrjX(3, 5, 1),                         \*  6 into the inner loop
       Blk(<<6, 12>>, 3),                     \*  7 header of the inner loop
       Nd("Cond", "T", 7, <<4>>),             \*  8
       PrjX(7, 8, 1), PrjX(7, 8, 0),          \*  9 10
       Blk(<<9>>, 3),                         \* 11 body of the inner loop
       Nd("Jmp", "X", 11, <<>>),              \* 12
       Blk(<<10>>, 2),                        \* 13 latch of the outer loop
       Nd("Jmp", "X", 13, <<>>),              \* 14
       Blk(<<16>>, 1),                        \* 15 block after the loops
       PrjX(3, 5, 0),                         \* 16
       Nd("Return", "X", 15, <<>>),           \* 17
       Blk(<<17>>, 1),                        \* 18 end block
       Nd("End", "X", 18, <<>>) >>

NestedTree ==
    << [outer |-> 1, elems |-> <<<<"node", 1>>, <<"loop", 2>>,
                                 <<"node", 15>>, <<"node", 18>>>>],
       [outer |-> 1, elems |-> <<<<"node", 3>>, <<"loop", 3>>,
                                 <<"node", 13>>>>],
       [outer |-> 2, elems |-> <<<<"node", 7>>, <<"node", 11>>>>] >>

NestedIdom ==
    [n \in 1..19 |-> CASE n = 3 -> 1 [] n = 7 -> 3 [] n = 11 -> 7
                       [] n = 13 -> 7 [] n = 15 -> 3 [] n = 18 -> 15
                       [] OTHER -> 0]

\* the sequences with the elements of s in any order
RECURSIVE Orders(_)
Orders(s) ==
    IF s = <<>> THEN {<<>>}
    ELSE UNION {{<<s[i]>> \o t :
                    t \in Orders(SelectSeq([k \in 1..Len(s) |->
                                               IF k = i THEN <<>> ELSE s[k]],
                                           LAMBDA e : e # <<>>))} :
                  i \in 1..Len(s)}

\* the loop trees with the elements of every loop but the root in any order
RECURSIVE Reordered(_)
Reordered(tree) ==
    IF Len(tree) = 1 THEN {tree}
    ELSE {front \o <<[outer |-> tree[Len(tree)].outer, elems |-> es]>> :
             front \in Reordered(SubSeq(tree, 1, Len(tree) - 1)),
             es \in Orders(tree[Len(tree)].elems)}

HeaderGraphs ==
    {LoopGraph("nested", NestedNodes, t, NestedIdom, 0) :
        t \in Reordered(NestedTree)}
    \cup {LoopGraph("while", WhileLoopNodes(8, "lt", "Add", "none"), t,
                    WhileLoopIdom, 8) : t \in Reordered(WhileLoopTree)}
    \cup {LoopGraph("twoentry", TwoEntryNodes, t, TwoEntryIdom, 0) :
             t \in Reordered(TwoEntryTree)}

InitHeader ==
    /\ scen = "header"
    /\ pc = "gh_call"
    /\ IdleVerify
    /\ IdleLower
    /\ \E graph \in HeaderGraphs, loop \in 1..3, factor \in Factors :
          /\ loop <= Len(graph.loops)
          /\ nodes = graph.nodes
          /\ up = [UnrollState(graph, factor, MaxSize, FALSE, 0, {})
                      EXCEPT !.loop = loop]
    /\ link = NoLinks(nodes)
    /\ outs = <<>>
    /\ props = UnrollAssuredProps
    /\ reserved = UnrollResources

\* one call of get_loop_header
GetLoopHeader ==
    /\ scen = "header" /\ pc = "gh_call"
    /\ up' = [up EXCEPT !.header = get_loop_header(up, G, up.loop)]
    /\ pc' = "gh_returned"
    /\ UNCHANGED <<scen, varsV, varsL, varsG>>

NextHeader == GetLoopHeader

SpecHeader == InitHeader /\ [][NextHeader]_vars

\* the blocks that control flow reaches from block b in one step
CfgSuccessors(b) ==
    {s \in 1..Len(nodes) :
        /\ nodes[s].op = "Block"
        /\ \E i \in 1..Len(nodes[s].ins) : nodes[nodes[s].ins[i]].blk = b}

\* the blocks that control flow reaches from the blocks in todo without
\* passing the block a
RECURSIVE ReachedAvoiding(_, _, _)
ReachedAvoiding(a, todo, seen) ==
    IF todo \subseteq seen THEN seen
    ELSE ReachedAvoiding(a,
             (UNION {CfgSuccessors(b) : b \in todo \ seen}) \ {a},
             seen \cup todo)

\* a dominates b: every path from the start block to b passes a
Dominates(a, b) ==
    a = b \/ b \notin ReachedAvoiding(a, {1} \ {a}, {})

\* the loops that loop l lies in, l included
RECURSIVE EnclosingLoops(_)
EnclosingLoops(l) ==
    IF up.loops[l].outer = l THEN {l}
    ELSE {l} \cup EnclosingLoops(up.loops[l].outer)

\* the blocks of a loop and of all its nested loops
BlocksInside(l) ==
    {b \in 1..Len(nodes) :
        /\ nodes[b].op = "Block" /\ nodes[b].loop # 0
        /\ l \in EnclosingLoops(nodes[b].loop)}

\* the blocks inside the loop that dominate every block inside it
DominatingBlocks(l) ==
    {h \in BlocksInside(l) : \A b \in BlocksInside(l) : Dominates(h, b)}

\* the blocks that are elements of the loop itself
MemberBlocks(l) ==
    {up.loops[l].elems[i][2] :
        i \in {k \in 1..Len(up.loops[l].elems) :
                  up.loops[l].elems[k][1] = "node"}}

\* get_loop_header with the walk begun at the block start
header_from(l, start) ==
    LET header == walk_up_idom(up, G, start, l)
    IN  IF block_dominates_loop(up, header, l) THEN header ELSE 0

\* C24: the Block that get_loop_header returns lies inside the loop or one
\* of its sub-loops and dominates every Block of the loop and of its
\* sub-loops; it returns NULL only if no Block inside the loop does; and
\* for a loop with such a Block the walk up the dominator tree ends at the
\* same Block from whichever member Block it starts.
C24_LoopHeader ==
    (scen = "header" /\ pc = "gh_returned") =>
        /\ up.header # 0 => up.header \in DominatingBlocks(up.loop)
        /\ up.header = 0 => DominatingBlocks(up.loop) = {}
        /\ DominatingBlocks(up.loop) # {} =>
              \A start \in MemberBlocks(up.loop) :
                  header_from(up.loop, start) = up.header

\* the header of the outer loop was found from its latch, over the header
\* of the nested loop
C24_Witness ==
    /\ scen = "header" /\ pc = "gh_returned"
    /\ up.graph = "nested" /\ up.loop = 2
    /\ up.loops[2].elems[1] = <<"node", 13>>
    /\ up.header = 3

\* no Block of the loop that is entered at two blocks dominates the other
C24_NoHeader ==
    /\ scen = "header" /\ pc = "gh_returned"
    /\ up.graph = "twoentry" /\ up.loop = 2
    /\ up.header = 0

(***************************************************************************)
(* C25.  The alias candidates of a loop and the bases they rule out.  The  *)
(* nested loops get a Store in one of their blocks; a Load and a pure Call *)
(* in the start block are the bases that are asked for.                    *)
(***************************************************************************)
\* the addresses: the entities a and b and a pointer that is not known
StoreAddresses == {20, 21, 22}

EntityAddresses == {20, 21}

\* a Store in block sb to the address sa, a Load from la, a pure Call of ca
StoreLoopNodes(sb, sa, la, ca) ==
    NestedNodes \o
    << MkNode("Address", "P", 1, <<>>, 0, "a", FALSE, 0),       \* 20
       MkNode("Address", "P", 1, <<>>, 0, "b", FALSE, 0),       \* 21
       MkNode("Unknown", "P", 1, <<>>, 0, "", FALSE, 0),        \* 22
       Nd("NoMem", "M", 1, <<>>),                               \* 23
       Cst(1, 0),                                               \* 24
       MkNode("Store", "T", sb, <<23, sa, 24>>, 0, "", TRUE, 0), \* 25
       MkNode("Load", "T", 1, <<23, la>>, 0, "Is", TRUE, 0),    \* 26
       MkNode("Proj", "Is", 1, <<26>>, 0, "res", FALSE, 0),     \* 27
       MkNode("Call", "T", 1, <<23, ca>>, 0, "pure", TRUE, 0),  \* 28
       MkNode("Proj", "T", 1, <<28>>, 0, "T_result", FALSE, 0), \* 29
       MkNode("Proj", "Is", 1, <<29>>, 0, "", FALSE, 0) >>      \* 30

StoreLoopGraphs ==
    {LoopGraph("stores", StoreLoopNodes(sb, sa, la, ca), t, NestedIdom, 0) :
        sb \in {3, 11, 13}, sa \in StoreAddresses, la \in EntityAddresses,
        ca \in EntityAddresses, t \in Reordered(NestedTree)}

InitStores ==
    /\ scen = "stores"
    /\ pc = "gs_call"
    /\ IdleVerify
    /\ IdleLower
    /\ \E graph \in StoreLoopGraphs, loop \in 2..3 :
          /\ nodes = graph.nodes
          /\ up = [UnrollState(graph, 1, MaxSize, FALSE, 0, {})
                      EXCEPT !.loop = loop]
    /\ link = NoLinks(nodes)
    /\ outs = compute_irg_outs(nodes)
    /\ props = UnrollAssuredProps
    /\ reserved = UnrollResources

\* clear_all_stores(); get_all_stores(loop)
GetAllStores ==
    /\ scen = "stores" /\ pc = "gs_call"
    /\ up' = [up EXCEPT !.alias = get_all_stores(up, G, outs, up.loop)]
    /\ pc' = "gs_collected"
    /\ UNCHANGED <<scen, varsV, varsL, varsG>>

\* is_valid_base on the result of the Load or of the Call
IsValidBase ==
    /\ scen = "stores" /\ pc = "gs_collected"
    /\ \E base \in {27, 30} :
          up' = [up EXCEPT !.header = base,
                           !.can_unroll =
                               <<is_valid_base(up, G, up.alias, base,
                                               up.loop)>>]
    /\ pc' = "gs_checked"
    /\ UNCHANGED <<scen, varsV, varsL, varsG>>

NextStores == GetAllStores \/ IsValidBase

SpecStores == InitStores /\ [][NextStores]_vars

\* the Stores in the blocks of a loop and of its nested loops
StoresInside(l) ==
    {n \in 1..Len(nodes) :
        nodes[n].op = "Store" /\ nodes[n].blk \in BlocksInside(l)}

\* the address that a base reads: of the Load or of the Call behind it
BaseAddress(base) ==
    LET pre == nodes[base].ins[1]
    IN  IF nodes[pre].op = "Load" THEN nodes[pre].ins[2]
        ELSE nodes[nodes[pre].ins[1]].ins[2]

AliasesStoreOf(l, base) ==
    \E s \in StoresInside(l) :
        get_alias_relation(G, nodes[s].ins[2], BaseAddress(base))
            # "no_alias"

\* C25: after get_all_stores(loop) the candidates hold every Store of a
\* Block of the loop or of a nested loop, whatever the order of the loop
\* elements, and is_valid_base accepts the result of a Load or of a pure
\* Call only if its address aliases no Store of the loop.
C25_NoAliasedBase ==
    /\ (scen = "stores" /\ pc \in {"gs_collected", "gs_checked"}) =>
          \A s \in StoresInside(up.loop) :
              \E k \in 1..Len(up.alias) : up.alias[k].node = s
    /\ (scen = "stores" /\ pc = "gs_checked" /\ up.can_unroll[1]) =>
          ~AliasesStoreOf(up.loop, up.header)

\* the first half alone: no Store of the loop is missing
C25_AllStoresCollected ==
    (scen = "stores" /\ pc \in {"gs_collected", "gs_checked"}) =>
        \A s \in StoresInside(up.loop) :
            \E k \in 1..Len(up.alias) : up.alias[k].node = s

\* the second half for the Stores that were collected and a Load
C25_LoadAgainstCollected ==
    (scen = "stores" /\ pc = "gs_checked" /\ up.can_unroll[1]
        /\ nodes[nodes[up.header].ins[1]].op = "Load") =>
        \A k \in 1..Len(up.alias) :
            get_alias_relation(G, up.alias[k].addr, BaseAddress(up.header))
                = "no_alias"

\* the second half for the Stores that were collected and a Call
C25_CallAgainstCollected ==
    (scen = "stores" /\ pc = "gs_checked" /\ up.can_unroll[1]
        /\ nodes[nodes[up.header].ins[1]].op = "Proj") =>
        \A k \in 1..Len(up.alias) :
            get_alias_relation(G, up.alias[k].addr, BaseAddress(up.header))
                = "no_alias"

\* the Store in the header of the outer loop was collected and then lost
\* when the nested loop was entered, and the Load from its address was
\* accepted as a base
C25_Witness ==
    /\ scen = "stores" /\ pc = "gs_checked"
    /\ up.loop = 2
    /\ nodes[25].blk = 3
    /\ up.loops[2].elems[1] = <<"node", 3>>
    /\ up.alias = <<>>
    /\ up.header = 27 /\ nodes[26].ins[2] = nodes[25].ins[2]
    /\ up.can_unroll = <<TRUE>>

(***************************************************************************)
(* C26.  One round of duplicate_block and rewire_block at the header, and  *)
(* the cycle that the rounds leave.  The nodes of round r are the r-th     *)
(* run of new nodes behind the nodes the graph had.                        *)
(***************************************************************************)
\* the nodes that a round copies: the blocks of the loop and their nodes
CopiedPerRound ==
    Cardinality({n \in 1..Len(up.nodes0) :
                    LET b == BlockOf(up.nodes0, n)
                    IN  b # 0 /\ up.nodes0[b].loop = up.loop})

\* the round a node was made in; 0 for the nodes of the graph as it was
Generation(n) ==
    IF n <= Len(up.nodes0) THEN 0
    ELSE ((n - Len(up.nodes0) - 1) \div CopiedPerRound) + 1

\* the place of a copy among the nodes of its round
PlaceInRound(n) == (n - Len(up.nodes0) - 1) % CopiedPerRound

\* new is the node that round r made of the node that old is or copies
CopyInRound(ns, new, old, r) ==
    /\ Generation(new) = r
    /\ ns[new].op = ns[old].op /\ ns[new].mode = ns[old].mode
    /\ ns[new].val = ns[old].val /\ ns[new].sym = ns[old].sym
    /\ Generation(old) > 0 => PlaceInRound(new) = PlaceInRound(old)

\* the step in which rewire_block works on the header in a round
RewiresHeader ==
    /\ scen = "rewire" /\ pc = "ul_rewire"
    /\ LoopElement(up.i) = <<"node", up.header>>

\* the positions of the header whose predecessor comes from a block of
\* the loop or of a copy of the loop
BackEdges ==
    {i \in 1..Len(nodes[up.header].ins) :
        nodes[BlockOf(nodes, nodes[up.header].ins[i])].loop = up.loop}

\* the inputs of n at the back-edge positions, in their order
AtBackEdges(n) ==
    SelectSeq([i \in 1..Len(nodes[n].ins) |->
                  IF i \in BackEdges THEN nodes[n].ins[i] ELSE 0],
              LAMBDA x : x # 0)

\* node n of the header and its copy new are split at the back-edges: the
\* copy gets the inputs n had there, n keeps its arity and its other
\* inputs and gets, for an input from the loop, the copy of this round
SplitAtBackEdges(n, new) ==
    /\ Len(nodes'[n].ins) = Len(nodes[n].ins)
    /\ nodes'[new].ins = AtBackEdges(n)
    /\ \A i \in 1..Len(nodes[n].ins) :
          LET old == nodes[n].ins[i]
          IN  IF i \in BackEdges
                 /\ nodes[BlockOf(nodes, old)].loop = up.loop
              THEN CopyInRound(nodes', nodes'[n].ins[i], old, up.j)
              ELSE nodes'[n].ins[i] = old

HeaderPhis ==
    {n \in 1..Len(up.nodes0) :
        nodes[n].op = "Phi" /\ nodes[n].blk = up.header}

\* the copy that round r made of the header
HeaderCopy(r) ==
    CHOOSE b \in 1..Len(nodes) :
        /\ Generation(b) = r /\ nodes[b].op = "Block"
        /\ \E n \in 1..Len(nodes) :
              /\ nodes[n].op = "Phi" /\ nodes[n].blk = b
              /\ \E h \in HeaderPhis : CopyInRound(nodes, n, h, r)

\* the rounds of generation r-1 lead into the header of generation r, and
\* the last one leads back into the header
OneCycle ==
    /\ \A r \in 1..(up.factor - 1) :
          \A i \in 1..Len(nodes[HeaderCopy(r)].ins) :
              Generation(nodes[HeaderCopy(r)].ins[i]) = r - 1
    /\ \A i \in BackEdges :
          Generation(nodes[up.header].ins[i]) = up.factor - 1
    /\ BackEdges # {}

\* C26: in the round in which rewire_block works on the header H, the copy
\* H' of this round gets exactly the predecessors H had from inside the
\* loop, in their order; H keeps its arity and its predecessors from
\* outside and gets at each back-edge the copy of its former predecessor;
\* every Phi in H is split at the same positions; and when the factor-1
\* rounds are done the bodies form one cycle: the header, the body, copy
\* 1, ..., copy factor-1 and the header again.
C26_HeaderPartition ==
    [][/\ RewiresHeader =>
             /\ Generation(link[up.header]) = up.j
             /\ SplitAtBackEdges(up.header, link[up.header])
             /\ Len(nodes'[link[up.header]].ins) = Cardinality(BackEdges)
             /\ \A phi \in HeaderPhis : SplitAtBackEdges(phi, link[phi])
       /\ (scen = "rewire" /\ pc' = "ul_finish" /\ up.factor > 1) =>
             OneCycle']_vars

\* the header with two ways in from outside has been rewired in the
\* second round: its copy has the one back-edge
C26_Witness ==
    /\ scen = "rewire" /\ pc = "ul_finish"
    /\ up.graph = "twowayin" /\ up.factor = 3
    /\ Len(nodes[up.header].ins) = 3
    /\ Len(nodes[HeaderCopy(2)].ins) = 1
    /\ Generation(nodes[HeaderCopy(2)].ins[1]) = 1

(***************************************************************************)
(* C27.  unroll_loops leaves every loop as it is.                          *)
(***************************************************************************)
\* the blocks that are elements of some loop but the root
LoopMemberBlocks ==
    UNION {MemberBlocks(l) : l \in 2..Len(up.loops)}

DivMods(ns) == {n \in 1..Len(ns) : ns[n].op = "DivMod"}

\* the DivMods of the graph that the walk of this call has reached: they
\* have an entry
WalkedDivMods ==
    {d \in DivMods(GraphBefore.nodes) :
        d <= Len(lenv.entries) /\ lenv.entries[d].has}

\* the Projs of the node d with the given number
ProjsWith(ns, d, pn) ==
    {p \in 1..Len(ns) :
        ns[p].op = "Proj" /\ ns[p].ins = <<d>> /\ ns[p].sym = pn}

\* the results of the DivMod d that a Proj takes
Observed(ns, d) ==
    {pn \in {"res_div", "res_mod"} : ProjsWith(ns, d, pn) # {}}

\* the Calls of the emulation function of op among the nodes that were
\* added to ns
CallsOf(ns, ms, fkt, op) ==
    {c \in (Len(ns) + 1)..Len(ms) :
        /\ ms[c].op = "Call"
        /\ ms[ms[c].ins[2]].op = "SymConst"
        /\ \E e \in fkt : e.op = op /\ e.ent = ms[ms[c].ins[2]].val}

\* the node that n takes its memory from, 0 if there is none
MemoryPred(ms, n) ==
    IF ms[n].op \in {"Proj", "Call", "Load", "Store", "DivMod"}
    THEN ms[n].ins[1] ELSE 0

\* n and the nodes that n is ordered after by its memory input
RECURSIVE MemoryChain(_, _, _)
MemoryChain(ms, n, fuel) ==
    IF n = 0 \/ fuel = 0 THEN {}
    ELSE {n} \cup MemoryChain(ms, MemoryPred(ms, n), fuel - 1)

OrderedAfter(ms, p, c) == c \in MemoryChain(ms, p, Len(ms))

\* one Call of each emulation function, the Mod Call on the memory Proj of
\* the Div Call
TwoSerializedCalls(ns, ms, fkt) ==
    /\ Cardinality(CallsOf(ns, ms, fkt, "Div")) = 1
    /\ Cardinality(CallsOf(ns, ms, fkt, "Mod")) = 1
    /\ \A cd \in CallsOf(ns, ms, fkt, "Div"),
          cm \in CallsOf(ns, ms, fkt, "Mod") :
            /\ ms[ms[cm].ins[1]].op = "Proj"
            /\ ms[ms[cm].ins[1]].sym = "M"
            /\ ms[ms[cm].ins[1]].ins = <<cd>>

\* one Call, of the emulation function of the result that is taken, and
\* the memory Proj and the exception Proj of d are Projs of it
OneCall(ns, ms, fkt, d) ==
    LET op    == IF "res_div" \in Observed(ns, d) THEN "Div" ELSE "Mod"
        other == IF op = "Div" THEN "Mod" ELSE "Div"
    IN  /\ Cardinality(CallsOf(ns, ms, fkt, op)) = 1
        /\ CallsOf(ns, ms, fkt, other) = {}
        /\ \A c \in CallsOf(ns, ms, fkt, op) :
              \A p \in ProjsWith(ns, d, "M") \cup ProjsWith(ns, d, "X_except") :
                  ms[p].ins = <<c>>

\* C28: when lower_dw_ops is done with a graph that had a doubleword DivMod
\* with both results taken, the graph has two emulation Calls, the Mod Call
\* takes its memory from the memory Proj of the Div Call, and the memory
\* Proj of the DivMod is ordered after both Calls; with one result taken
\* there is one Call and the memory Proj and the exception Proj of the
\* DivMod are Projs of it.
C28_OrderedAfterBothCalls ==
    [][GraphDone =>
          \A d \in WalkedDivMods :
              LET ns  == GraphBefore.nodes
                  ms  == GraphAfter.nodes
                  fkt == irp'.intrinsic_fkt
              IN  /\ Cardinality(Observed(ns, d)) = 2 =>
                        /\ TwoSerializedCalls(ns, ms, fkt)
                        /\ \A p \in ProjsWith(ns, d, "M") :
                              \A c \in CallsOf(ns, ms, fkt, "Div")
                                          \cup CallsOf(ns, ms, fkt, "Mod") :
                                  OrderedAfter(ms, p, c)
                  /\ Cardinality(Observed(ns, d)) = 1 =>
                        OneCall(ns, ms, fkt, d)]_vars

\* what lower_DivMod does: with both results taken the memory Proj and the
\* exception Proj of the DivMod become Projs of the Div Call, the first of
\* the two, and nothing takes the memory of the Mod Call
C28_ReroutedToFirstCall ==
    [][GraphDone =>
          \A d \in WalkedDivMods :
              LET ns  == GraphBefore.nodes
                  ms  == GraphAfter.nodes
                  fkt == irp'.intrinsic_fkt
              IN  /\ Cardinality(Observed(ns, d)) = 2 =>
                        /\ TwoSerializedCalls(ns, ms, fkt)
                        /\ \A p \in ProjsWith(ns, d, "M")
                                      \cup ProjsWith(ns, d, "X_except") :
                              /\ \A c \in CallsOf(ns, ms, fkt, "Div") :
                                    ms[p].ins = <<c>>
                              /\ \A c \in CallsOf(ns, ms, fkt, "Mod") :
                                    ~OrderedAfter(ms, p, c)
                        /\ \A c \in CallsOf(ns, ms, fkt, "Mod") :
                              ProjsWith(ms, c, "M") = {}
                  /\ Cardinality(Observed(ns, d)) = 1 =>
                        OneCall(ns, ms, fkt, d)]_vars

\* lower_dw_ops has returned from a graph whose DivMod 7 had both results
\* taken: the Return takes its memory from Proj 8, which is a Proj of the
\* Div Call, and the Mod Call is not in the memory chain of the Return
C28_Witness ==
    /\ scen = "lower" /\ pc = "ld_returned"
    /\ Len(irp.irgs) = 1
    /\ LET ms == irp.irgs[1].nodes
       IN  /\ DivMods(ms) = {7}
           /\ Cardinality(Observed(ms, 7)) = 2
           /\ ms[9].op = "Return" /\ ms[9].ins[1] = 8
           /\ \E cd \in 13..Len(ms), cm \in 13..Len(ms) :
                 /\ cd \in CallsOf(SubSeq(ms, 1, 12), ms,
                                   irp.intrinsic_fkt, "Div")
                 /\ cm \in CallsOf(SubSeq(ms, 1, 12), ms,
                                   irp.intrinsic_fkt, "Mod")
                 /\ ms[8].ins = <<cd>>
                 /\ ~OrderedAfter(ms, 9, cm)

\* a DivMod of which only the remainder is taken: one Call, and the memory
\* Proj and the exception Proj are Projs of it
C28_OneResult ==
    /\ scen = "lower" /\ pc = "ld_returned"
    /\ Len(irp.irgs) = 1
    /\ LET ms == irp.irgs[1].nodes
       IN  /\ DivMods(ms) = {7}
           /\ Observed(ms, 7) = {"res_mod"}
           /\ ms[13].sym = "X_except"
           /\ ms[ms[8].ins[1]].op = "Call"
           /\ ms[13].ins = ms[8].ins

(***************************************************************************)
(* PART 9.  The SPARC backend: sparc_finish_graph.  The graph after       *)
(* register allocation is the node sequence in nodes; a node is            *)
(* [op, blk, ins, imm, fe, form]: blk is the number of its block, imm the  *)
(* immediate value or the IncSP offset, fe the is_frame_entity flag of a   *)
(* load or store, form "imm" or "reg" for the two forms of an instruction. *)
(* up holds what belongs to the graph besides its nodes: sched, the        *)
(* schedule of every block; end_block, the inputs of the end block;        *)
(* sp_relative and frame_size, the stack layout and the size of the frame  *)
(* type; i, the index of the loop over the Returns; todo, the nodes that   *)
(* the running peephole walk has still to visit.  Node 1 is Start, node 2  *)
(* the initial value of the stack pointer, node 3 the initial value of the *)
(* frame pointer, node 4 the initial memory.  The sizes and offsets of the *)
(* model are far from the ends of the range of an int, so the arithmetic   *)
(* on them never wraps.                                                    *)
(***************************************************************************)
SNode(op, blk, ins, imm, fe, form) ==
    [op |-> op, blk |-> blk, ins |-> ins, imm |-> imm, fe |-> fe,
     form |-> form]

\* be_get_initial_reg_value for the stack pointer and the frame pointer
initial_sp == 2

initial_fp == 3

\* the schedule of block b without the node n
RECURSIVE without(_, _)
without(s, n) ==
    IF s = <<>> THEN <<>>
    ELSE IF Head(s) = n THEN without(Tail(s), n)
    ELSE <<Head(s)>> \o without(Tail(s), n)

\* the position of n in the sequence s, 0 if it is not there
RECURSIVE position(_, _)
position(s, n) ==
    IF s = <<>> THEN 0
    ELSE IF s[Len(s)] = n THEN Len(s)
    ELSE position(SubSeq(s, 1, Len(s) - 1), n)

sched_is_scheduled(g, n) ==
    position(g.sched[g.nodes[n].blk], n) # 0

sched_remove(g, n) ==
    [g EXCEPT !.sched[g.nodes[n].blk] = without(@, n)]

\* n is put into the schedule in front of the node at
sched_add_before(g, at, n) ==
    LET b == g.nodes[at].blk
        s == g.sched[b]
        p == position(s, at)
    IN  [g EXCEPT !.sched[b] = SubSeq(s, 1, p - 1) \o <<n>>
                                  \o SubSeq(s, p, Len(s))]

\* n is put into the schedule behind the node at
sched_add_after(g, at, n) ==
    LET b == g.nodes[at].blk
        s == g.sched[b]
        p == position(s, at)
    IN  [g EXCEPT !.sched[b] = SubSeq(s, 1, p) \o <<n>>
                                  \o SubSeq(s, p + 1, Len(s))]

\* the node behind n in the schedule of its block, 0 at the end
sched_next(g, n) ==
    LET s == g.sched[g.nodes[n].blk]
        p == position(s, n)
    IN  IF p = 0 \/ p = Len(s) THEN 0 ELSE s[p + 1]

\* the out edges of n: the pairs of a user and the position of its input
out_edges(g, n) ==
    {<<u, i>> \in (1..Len(g.nodes)) \X (1..4) :
        i <= Len(g.nodes[u].ins) /\ g.nodes[u].ins[i] = n}

get_irn_n_edges(g, n) == Cardinality(out_edges(g, n))

\* a new node; it is the last node of the result
new_bd(g, nd) == [g EXCEPT !.nodes = Append(@, nd)]

last_bd(g) == Len(g.nodes)

set_irn_n(g, n, i, to) == [g EXCEPT !.nodes[n].ins[i] = to]

\* every input of the nodes in users that is from becomes to
RECURSIVE reroute(_, _, _, _)
reroute(ns, from, to, users) ==
    IF ns = <<>> THEN <<>>
    ELSE reroute(SubSeq(ns, 1, Len(ns) - 1), from, to, users)
         \o <<IF Len(ns) \in users
              THEN [ns[Len(ns)] EXCEPT !.ins = turn_ins(@, from, to)]
              ELSE ns[Len(ns)]>>

\* a variant that spares no user
edges_reroute(g, from, to, exception) ==
    [g EXCEPT !.nodes = reroute(@, from, to, 1..Len(@))]

\* edges_reroute_except: the users of from, but for exception, use to
edges_reroute_except(g, from, to, exception) ==
    [g EXCEPT !.nodes = reroute(@, from, to, (1..Len(@)) \ {exception})]

\* kill_node: the node loses its inputs and is no node of the graph any
\* more
kill_node(g, n) ==
    [g EXCEPT !.nodes[n] = SNode("Deleted", @.blk, <<>>, 0, FALSE, "")]

\* be_peephole_exchange: the users of old use nw, old leaves the schedule
\* and is killed
be_peephole_exchange(g, old, nw) ==
    kill_node(sched_remove(edges_reroute_except(g, old, nw, 0), old), old)

\* the least size of a stack frame: the save area of the register window
SPARC_MIN_STACKSIZE == 92

\* the position of the stack pointer among the inputs of a Return
n_sparc_Return_sp == 1

\* kill_unused_stacknodes: an IncSP without a user goes; a Phi without a
\* user goes and so do its operands that are left without a user
RECURSIVE kill_unused_stacknodes(_, _)
RECURSIVE kill_unused_ins(_, _)
kill_unused_ins(g, ins) ==
    IF ins = <<>> THEN g
    ELSE kill_unused_ins(kill_unused_stacknodes(g, Head(ins)), Tail(ins))

kill_unused_stacknodes(g, node) ==
    IF get_irn_n_edges(g, node) > 0 THEN g
    ELSE IF g.nodes[node].op = "IncSP"
    THEN kill_node(sched_remove(g, node), node)
    ELSE IF g.nodes[node].op = "Phi"
    THEN kill_unused_ins(kill_node(sched_remove(g, node), node),
                         g.nodes[node].ins)
    ELSE g

\* a variant whose IncSP adds the size of the frame once more
epilog_offset_positive(frame_size) == frame_size

\* the offset of the IncSP of the epilog: -frame_size
epilog_offset(frame_size) == 0 - frame_size

\* introduce_epilog: the stack pointer that the Return takes is restored
introduce_epilog(g, ret, sp_relative, frame_size) ==
    LET sp    == g.nodes[ret].ins[n_sparc_Return_sp]
        block == g.nodes[ret].blk
        new   == Len(g.nodes) + 1
    IN  IF ~sp_relative
        THEN kill_unused_stacknodes(
                 set_irn_n(sched_add_before(
                               new_bd(g, SNode("RestoreZero", block,
                                               <<initial_sp, initial_fp>>,
                                               0, FALSE, "")),
                               ret, new),
                           ret, n_sparc_Return_sp, new),
                 sp)
        ELSE sched_add_before(
                 set_irn_n(new_bd(g, SNode("IncSP", block, <<sp>>,
                                           epilog_offset(frame_size),
                                           FALSE, "")),
                           ret, n_sparc_Return_sp, new),
                 ret, new)

\* while (be_is_Keep(sched_next(schedpoint)))
RECURSIVE skip_keeps(_, _)
skip_keeps(g, schedpoint) ==
    LET next == sched_next(g, schedpoint)
    IN  IF next # 0 /\ g.nodes[next].op = "Keep" THEN skip_keeps(g, next)
        ELSE schedpoint

\* the Keep for a Save that nothing uses
keep_unused_save(g, save) ==
    IF get_irn_n_edges(g, save) = 0
    THEN sched_add_after(new_bd(g, SNode("Keep", g.nodes[save].blk,
                                         <<save>>, 0, FALSE, "")),
                         save, Len(g.nodes) + 1)
    ELSE g

\* sparc_introduce_prolog_epilog behind its loop over the Returns: the
\* prolog is put behind Start and the Keeps that follow it
introduce_prolog(g, sp_relative, frame_size) ==
    LET start      == 1
        block      == g.nodes[start].blk
        schedpoint == skip_keeps(g, start)
        new        == Len(g.nodes) + 1
    IN  IF ~sp_relative
        THEN keep_unused_save(
                 edges_reroute_except(
                     sched_add_after(
                         new_bd(g, SNode("Save", block, <<initial_sp>>,
                                         0 - (SPARC_MIN_STACKSIZE
                                                  + frame_size),
                                         FALSE, "imm")),
                         schedpoint, new),
                     initial_sp, new, new),
                 new)
        ELSE sched_add_after(
                 edges_reroute_except(
                     new_bd(g, SNode("IncSP", block, <<initial_sp>>,
                                     frame_size, FALSE, "")),
                     initial_sp, new, new),
                 schedpoint, new)

\* the immediates that an instruction can hold: 13 bits with a sign
sparc_is_value_imm_encodeable(value) == -4096 <= value /\ value <= 4095

\* be_peephole_IncSP_IncSP: an IncSP behind an IncSP that nothing else
\* uses is merged into it; the result is the IncSP that is left
be_peephole_IncSP_IncSP(g, node) ==
    LET pred == g.nodes[node].ins[1]
    IN  IF g.nodes[pred].op = "IncSP" /\ get_irn_n_edges(g, pred) <= 1
        THEN [g    |-> be_peephole_exchange(
                           [g EXCEPT !.nodes[pred].imm =
                                        @ + g.nodes[node].imm],
                           node, pred),
              node |-> pred]
        ELSE [g |-> g, node |-> node]

\* the second half of peephole_be_IncSP: an IncSP that is the one user of
\* a Save is folded into the immediate of the Save
fold_into_Save(g, node) ==
    LET pred == g.nodes[node].ins[1]
    IN  IF /\ g.nodes[node].op = "IncSP"
           /\ g.nodes[pred].op = "Save"
           /\ get_irn_n_edges(g, pred) = 1
        THEN be_peephole_exchange(
                 [g EXCEPT !.nodes[pred].imm =
                              @ + (0 - g.nodes[node].imm)],
                 node, pred)
        ELSE g

peephole_be_IncSP(g, node) ==
    LET merged == be_peephole_IncSP_IncSP(g, node)
    IN  fold_into_Save(merged.g, merged.node)

\* the peephole optimizations that sparc_finish_graph registers; those of
\* FrameAddr, RestoreZero and Ldf leave the graphs of the model as they
\* are: peephole_sparc_FrameAddr is empty, no Copy, Or, Add or Sub is
\* scheduled in front of a RestoreZero and no Ldf loads 128 bits
peephole(g, node) ==
    IF g.nodes[node].op = "IncSP" THEN peephole_be_IncSP(g, node) ELSE g

\* offset & 0x3ff
low10(offset) == offset % 1024

\* a variant that always adds the Or
create_constant_with_Or(g, node, offset) ==
    LET block == g.nodes[node].blk
        high  == Len(g.nodes) + 1
        g1    == sched_add_before(
                     new_bd(g, SNode("SetHi", block, <<>>, offset, FALSE,
                                     "imm")),
                     node, high)
    IN  sched_add_before(
            new_bd(g1, SNode("Or", block, <<high>>, low10(offset), FALSE,
                             "imm")),
            node, high + 1)

\* create_constant_from_immediate: the constant is the last node of the
\* result
create_constant_from_immediate(g, node, offset) ==
    LET block == g.nodes[node].blk
        high  == Len(g.nodes) + 1
        g1    == sched_add_before(
                     new_bd(g, SNode("SetHi", block, <<>>, offset, FALSE,
                                     "imm")),
                     node, high)
    IN  IF low10(offset) # 0
        THEN sched_add_before(
                 new_bd(g1, SNode("Or", block, <<high>>, low10(offset),
                                  FALSE, "imm")),
                 node, high + 1)
        ELSE g1

\* the end of the finish functions: the new node is scheduled in front of
\* the old one and takes its place
replace_scheduled(g, node, nd) ==
    be_peephole_exchange(
        sched_add_before(new_bd(g, nd), node, Len(g.nodes) + 1),
        node, Len(g.nodes) + 1)

finish_sparc_Save(g, node) ==
    LET n  == g.nodes[node]
        gc == create_constant_from_immediate(g, node, n.imm)
    IN  IF ~sparc_is_value_imm_encodeable(n.imm)
        THEN replace_scheduled(gc, node,
                 SNode("Save", n.blk, <<n.ins[1], last_bd(gc)>>, 0, FALSE,
                       "reg"))
        ELSE g

finish_be_IncSP(g, node) ==
    LET n  == g.nodes[node]
        gc == create_constant_from_immediate(g, node, n.imm)
    IN  IF /\ ~sparc_is_value_imm_encodeable(n.imm)
           /\ ~sparc_is_value_imm_encodeable(0 - n.imm)
        THEN replace_scheduled(gc, node,
                 SNode("Sub", n.blk, <<n.ins[1], last_bd(gc)>>, 0, FALSE,
                       "reg"))
        ELSE g

finish_sparc_FrameAddr(g, node) ==
    LET n  == g.nodes[node]
        gc == create_constant_from_immediate(g, node, n.imm)
    IN  IF ~sparc_is_value_imm_encodeable(n.imm)
        THEN replace_scheduled(gc, node,
                 SNode("Add", n.blk, <<n.ins[1], last_bd(gc)>>, 0, FALSE,
                       "reg"))
        ELSE g

\* the inputs of a Ld are <<ptr, mem>>
finish_sparc_Ld(g, node) ==
    LET n  == g.nodes[node]
        gc == create_constant_from_immediate(g, node, n.imm)
    IN  IF n.fe /\ ~sparc_is_value_imm_encodeable(n.imm)
        THEN replace_scheduled(gc, node,
                 SNode("Ld", n.blk, <<n.ins[1], last_bd(gc), n.ins[2]>>, 0,
                       n.fe, "reg"))
        ELSE g

\* finish_sparc_Ldf: the new pointer is an Add that is put into no
\* schedule; the new Ldf has the immediate 0
finish_sparc_Ldf(g, node) ==
    LET n  == g.nodes[node]
        gc == create_constant_from_immediate(g, node, n.imm)
        gp == new_bd(gc, SNode("Add", n.blk, <<n.ins[1], last_bd(gc)>>, 0,
                               FALSE, "reg"))
    IN  IF n.fe /\ ~sparc_is_value_imm_encodeable(n.imm)
        THEN replace_scheduled(gp, node,
                 SNode("Ldf", n.blk, <<last_bd(gp), n.ins[2]>>, 0, n.fe,
                       "imm"))
        ELSE g

\* the inputs of a St are <<val, ptr, mem>>
finish_sparc_St(g, node) ==
    LET n  == g.nodes[node]
        gc == create_constant_from_immediate(g, node, n.imm)
    IN  IF n.fe /\ ~sparc_is_value_imm_encodeable(n.imm)
        THEN replace_scheduled(gc, node,
                 SNode("St", n.blk,
                       <<n.ins[1], n.ins[2], last_bd(gc), n.ins[3]>>, 0,
                       n.fe, "reg"))
        ELSE g

\* finish_sparc_Stf: as finish_sparc_Ldf
finish_sparc_Stf(g, node) ==
    LET n  == g.nodes[node]
        gc == create_constant_from_immediate(g, node, n.imm)
        gp == new_bd(gc, SNode("Add", n.blk, <<n.ins[2], last_bd(gc)>>, 0,
                               FALSE, "reg"))
    IN  IF n.fe /\ ~sparc_is_value_imm_encodeable(n.imm)
        THEN replace_scheduled(gp, node,
                 SNode("Stf", n.blk, <<n.ins[1], last_bd(gp), n.ins[3]>>, 0,
                       n.fe, "imm"))
        ELSE g

\* the Restore or RestoreZero that is closest in front of the node at
\* position p of the schedule s, 0 if there is none
RECURSIVE restore_before(_, _, _)
restore_before(g, s, p) ==
    IF p <= 1 THEN 0
    ELSE IF g.nodes[s[p - 1]].op \in {"Restore", "RestoreZero"}
    THEN s[p - 1]
    ELSE restore_before(g, s, p - 1)

\* finish_sparc_Return: the restore is put directly in front of the Return
finish_sparc_Return(g, node) ==
    LET s       == g.sched[g.nodes[node].blk]
        restore == restore_before(g, s, position(s, node))
    IN  IF restore = 0 THEN g
        ELSE sched_add_before(sched_remove(g, restore), node, restore)

\* the legalizations that sparc_finish_graph registers
finish(g, node) ==
    LET op == g.nodes[node].op
    IN  CASE op = "IncSP" -> finish_be_IncSP(g, node)
          [] op = "FrameAddr" -> finish_sparc_FrameAddr(g, node)
          [] op = "Ld" -> finish_sparc_Ld(g, node)
          [] op = "Ldf" -> finish_sparc_Ldf(g, node)
          [] op = "Return" -> finish_sparc_Return(g, node)
          [] op = "Save" -> finish_sparc_Save(g, node)
          [] op = "St" -> finish_sparc_St(g, node)
          [] op = "Stf" -> finish_sparc_Stf(g, node)
          [] OTHER -> g

\* be_peephole_opt walks every block from its last node to its first
RECURSIVE reverse(_)
reverse(s) == IF s = <<>> THEN <<>> ELSE reverse(Tail(s)) \o <<Head(s)>>

RECURSIVE walk_order(_)
walk_order(sched) ==
    IF sched = <<>> THEN <<>>
    ELSE reverse(Head(sched)) \o walk_order(Tail(sched))

(***************************************************************************)
(* The graphs that sparc_finish_graph is called for.  They have one node   *)
(* that accesses the stack frame, node 5 or 6: a load or store with or     *)
(* without a frame entity, or a FrameAddr.                                 *)
(***************************************************************************)
\* the sizes of the frame type
FrameSizes == {0, 8, 4004, 4008, 4096, 5028, 5120}

\* the offsets that the frame entities are given
Immediates == {0, 4095, 4096, -4096, -4097, 5120, 70001}

AccessKinds == {"Ld", "Ldf", "St", "Stf", "FrameAddr"}

\* the node that accesses the frame through base
Access(kind, blk, base, imm, fe) ==
    SNode(kind, blk,
          CASE kind \in {"Ld", "Ldf"} -> <<base, 4>>
            [] kind \in {"St", "Stf"} -> <<initial_fp, base, 4>>
            [] OTHER -> <<base>>,
          imm, fe, "imm")

StartNodes ==
    <<SNode("Start", 1, <<>>, 0, FALSE, ""),
      SNode("Proj", 1, <<1>>, 0, FALSE, "sp"),
      SNode("Proj", 1, <<1>>, 0, FALSE, "fp"),
      SNode("Proj", 1, <<1>>, 0, FALSE, "M")>>

SReturn(blk, sp) == SNode("Return", blk, <<sp>>, 0, FALSE, "")

SIncSP(blk, sp, offset) == SNode("IncSP", blk, <<sp>>, offset, FALSE, "")

\* the graph of a shape with the access a: its nodes, its schedule and the
\* inputs of its end block
\*   leaf  one block that returns
\*   keep  as leaf, with a Keep behind Start
\*   call  the access lies between an IncSP and the IncSP that undoes it
\*   two   two blocks that return
\*   phi   the Return takes a Phi of two IncSPs
\*   loop  no block returns; the access goes through an IncSP
\*   spin  no block returns and nothing takes the stack pointer
SparcGraph(shape, kind, imm, fe) ==
    CASE shape = "leaf" ->
           [nodes |-> StartNodes \o <<Access(kind, 1, initial_sp, imm, fe),
                                      SReturn(1, initial_sp)>>,
            sched |-> <<<<1, 5, 6>>>>, end_block |-> <<6>>]
      [] shape = "keep" ->
           [nodes |-> StartNodes \o <<SNode("Keep", 1, <<initial_fp>>, 0,
                                            FALSE, ""),
                                      Access(kind, 1, initial_fp, imm, fe),
                                      SReturn(1, initial_sp)>>,
            sched |-> <<<<1, 5, 6, 7>>>>, end_block |-> <<7>>]
      [] shape = "call" ->
           [nodes |-> StartNodes \o <<SIncSP(1, initial_sp, 16),
                                      Access(kind, 1, 5, imm, fe),
                                      SIncSP(1, 5, -16), SReturn(1, 7)>>,
            sched |-> <<<<1, 5, 6, 7, 8>>>>, end_block |-> <<8>>]
      [] shape = "two" ->
           [nodes |-> StartNodes \o <<Access(kind, 1, initial_sp, imm, fe),
                                      SReturn(2, initial_sp),
                                      SReturn(3, initial_sp)>>,
            sched |-> <<<<1, 5>>, <<6>>, <<7>>>>, end_block |-> <<6, 7>>]
      [] shape = "phi" ->
           [nodes |-> StartNodes \o <<Access(kind, 1, initial_sp, imm, fe),
                                      SIncSP(2, initial_sp, 16),
                                      SIncSP(2, 6, -16),
                                      SIncSP(3, initial_sp, 32),
                                      SIncSP(3, 8, -32),
                                      SNode("Phi", 4, <<7, 9>>, 0, FALSE, ""),
                                      SReturn(4, 10)>>,
            sched |-> <<<<1, 5>>, <<6, 7>>, <<8, 9>>, <<10, 11>>>>,
            end_block |-> <<11>>]
      [] shape = "loop" ->
           [nodes |-> StartNodes \o <<SIncSP(1, initial_sp, 16),
                                      Access(kind, 1, 5, imm, fe)>>,
            sched |-> <<<<1, 5, 6>>>>, end_block |-> <<>>]
      [] OTHER ->
           [nodes |-> StartNodes \o <<Access(kind, 1, initial_fp, imm, fe)>>,
            sched |-> <<<<1, 5>>>>, end_block |-> <<>>]

SparcShapes == {"leaf", "keep", "call", "two", "phi", "loop", "spin"}

\* a load or store without a frame entity has its immediate from the
\* start; the offsets of the frame entities are not yet fixed
SparcGraphs ==
    {SparcGraph(shape, kind, 0, kind # "FrameAddr") :
        shape \in SparcShapes, kind \in AccessKinds}
    \cup {SparcGraph(shape, kind, imm, FALSE) :
            shape \in SparcShapes, kind \in AccessKinds \ {"FrameAddr"},
            imm \in {0, 5120}}

\* sparc_finish_graph is called: the frame entities are assigned and the
\* frame type has its size
InitSparc ==
    /\ scen = "sparc"
    /\ pc = "sf_epilog"
    /\ IdleVerify
    /\ IdleLower
    /\ \E graph \in SparcGraphs, layout \in BOOLEAN, size \in FrameSizes :
          /\ nodes = graph.nodes
          /\ up = [sched |-> graph.sched, end_block |-> graph.end_block,
                   sp_relative |-> layout, frame_size |-> size, i |-> 1,
                   todo |-> <<>>]
    /\ link = <<>> /\ outs = <<>> /\ props = {} /\ reserved = {}

\* the graph as the operators of this part take it
SG == [nodes |-> nodes, sched |-> up.sched]

\* the graph is put back
SparcPut(g) ==
    /\ nodes' = g.nodes
    /\ UNCHANGED <<scen, varsV, link, outs, props, reserved, varsL>>

\* one turn of the loop of sparc_introduce_prolog_epilog over the Returns
IntroduceEpilog ==
    /\ scen = "sparc" /\ pc = "sf_epilog"
    /\ up.i <= Len(up.end_block)
    /\ \E g \in {introduce_epilog(SG, up.end_block[up.i], up.sp_relative,
                                  up.frame_size)} :
          /\ SparcPut(g)
          /\ up' = [up EXCEPT !.sched = g.sched, !.i = @ + 1]
    /\ pc' = pc

\* the rest of sparc_introduce_prolog_epilog
IntroduceProlog ==
    /\ scen = "sparc" /\ pc = "sf_epilog"
    /\ up.i > Len(up.end_block)
    /\ \E g \in {introduce_prolog(SG, up.sp_relative, up.frame_size)} :
          /\ SparcPut(g)
          /\ up' = [up EXCEPT !.sched = g.sched]
    /\ pc' = "sf_fix_stack"

\* the nodes whose immediate is the offset of a frame entity
FrameEntityNodes(ns) ==
    {n \in 1..Len(ns) :
        ns[n].op = "FrameAddr"
           \/ (ns[n].op \in {"Ld", "Ldf", "St", "Stf"} /\ ns[n].fe)}

RECURSIVE set_offsets(_, _)
set_offsets(ns, imm) ==
    IF ns = <<>> THEN <<>>
    ELSE set_offsets(SubSeq(ns, 1, Len(ns) - 1), imm)
         \o <<IF ns[Len(ns)].op = "FrameAddr"
                 \/ (ns[Len(ns)].op \in {"Ld", "Ldf", "St", "Stf"}
                        /\ ns[Len(ns)].fe)
              THEN [ns[Len(ns)] EXCEPT !.imm = imm] ELSE ns[Len(ns)]>>

\* be_abi_fix_stack_nodes and sparc_fix_stack_bias: the offset of a frame
\* entity becomes an offset from the stack pointer or the frame pointer,
\* whatever the frame layout makes it; then the peephole phase begins
FixStackBias ==
    /\ scen = "sparc" /\ pc = "sf_fix_stack"
    /\ \E imm \in Immediates :
          nodes' = IF FrameEntityNodes(nodes) = {} THEN nodes
                   ELSE set_offsets(nodes, imm)
    /\ up' = [up EXCEPT !.todo = walk_order(up.sched)]
    /\ pc' = "sf_peephole"
    /\ UNCHANGED <<scen, varsV, link, outs, props, reserved, varsL>>

\* the walk visits a node that is still in the schedule
Visited(n) == nodes[n].op # "Deleted" /\ sched_is_scheduled(SG, n)

\* be_peephole_opt with the peephole optimizations: one node of the walk
PeepholeNode ==
    /\ scen = "sparc" /\ pc = "sf_peephole"
    /\ up.todo # <<>>
    /\ \E g \in {IF Visited(Head(up.todo)) THEN peephole(SG, Head(up.todo))
                 ELSE SG} :
          /\ SparcPut(g)
          /\ up' = [up EXCEPT !.sched = g.sched, !.todo = Tail(@)]
    /\ pc' = pc

\* the peephole optimizations are through; the legalizations are registered
LegalizeBegin ==
    /\ scen = "sparc" /\ pc = "sf_peephole"
    /\ up.todo = <<>>
    /\ up' = [up EXCEPT !.todo = walk_order(up.sched)]
    /\ pc' = "sf_legalize"
    /\ UNCHANGED <<scen, varsV, varsG, varsL>>

\* be_peephole_opt with the legalizations: one node of the walk
LegalizeNode ==
    /\ scen = "sparc" /\ pc = "sf_legalize"
    /\ up.todo # <<>>
    /\ \E g \in {IF Visited(Head(up.todo)) THEN finish(SG, Head(up.todo))
                 ELSE SG} :
          /\ SparcPut(g)
          /\ up' = [up EXCEPT !.sched = g.sched, !.todo = Tail(@)]
    /\ pc' = pc

\* sparc_finish_graph returns
SparcFinishReturn ==
    /\ scen = "sparc" /\ pc = "sf_legalize"
    /\ up.todo = <<>>
    /\ pc' = "sf_done"
    /\ UNCHANGED <<scen, varsV, varsG, up, varsL>>

NextSparc ==
    \/ IntroduceEpilog
    \/ IntroduceProlog
    \/ FixStackBias
    \/ PeepholeNode
    \/ LegalizeBegin
    \/ LegalizeNode
    \/ SparcFinishReturn

SpecSparc == InitSparc /\ [][NextSparc]_vars

(***************************************************************************)
(* C29.  The prolog and the epilogs of sparc_introduce_prolog_epilog.      *)
(***************************************************************************)
\* the nodes that take n as an input
UsersOf(ns, n) ==
    {u \in 1..Len(ns) : \E i \in 1..Len(ns[u].ins) : ns[u].ins[i] = n}

\* a is scheduled and b is the node that follows it
DirectlyBefore(sched, a, b) ==
    \E k \in 1..Len(sched) :
        \E i \in 1..(Len(sched[k]) - 1) :
            sched[k][i] = a /\ sched[k][i + 1] = b

\* only Keeps are scheduled between a and the later node b
KeepsBetween(ns, s, a, b) ==
    LET pa == position(s, a)
        pb == position(s, b)
    IN  /\ pa # 0 /\ pa < pb
        /\ \A i \in (pa + 1)..(pb - 1) : ns[s[i]].op = "Keep"

\* the sums of the IncSP offsets on the ways from the stack value n back
\* to the initial stack pointer
RECURSIVE StackSums(_, _, _)
StackSums(ns, n, fuel) ==
    IF n = initial_sp THEN {0}
    ELSE IF fuel = 0 THEN {}
    ELSE IF ns[n].op = "IncSP"
    THEN {s + ns[n].imm : s \in StackSums(ns, ns[n].ins[1], fuel - 1)}
    ELSE IF ns[n].op = "Phi"
    THEN UNION {StackSums(ns, ns[n].ins[i], fuel - 1) :
                   i \in 1..Len(ns[n].ins)}
    ELSE {}

\* the step in which sparc_introduce_prolog_epilog returns
PrologEpilogDone ==
    scen = "sparc" /\ pc = "sf_epilog" /\ pc' = "sf_fix_stack"

\* the Return ret takes an IncSP by -size that is scheduled right in front
\* of it, and the offsets from Start to the Return sum to zero
EpilogIncSP(ns, sched, ret, size) ==
    LET e == ns[ret].ins[n_sparc_Return_sp]
    IN  /\ ns[e].op = "IncSP" /\ ns[e].imm = 0 - size
        /\ DirectlyBefore(sched, e, ret)
        /\ StackSums(ns, e, Len(ns)) = {0}

\* the Return ret takes a RestoreZero of the prolog p and the initial
\* frame pointer that is scheduled right in front of it
EpilogRestore(ns, sched, ret, p) ==
    LET e == ns[ret].ins[n_sparc_Return_sp]
    IN  /\ ns[e].op = "RestoreZero" /\ ns[e].ins = <<p, initial_fp>>
        /\ DirectlyBefore(sched, e, ret)

\* C29: when sparc_introduce_prolog_epilog is through, one node p, the
\* prolog, takes the initial stack pointer, and every node that took it
\* before takes p instead; p is scheduled in the block of Start behind
\* Start and Keeps only; with an sp-relative layout p is an IncSP by
\* frame_size and every Return of the end block takes an IncSP by
\* -frame_size, so that the offsets from Start to the Return sum to zero;
\* with a frame pointer p is the one Save, by -(SPARC_MIN_STACKSIZE +
\* frame_size), and every Return takes a RestoreZero scheduled in front of
\* it.
C29_PrologEpilog ==
    [][PrologEpilogDone =>
          \E p \in 1..Len(nodes') :
              /\ UsersOf(nodes', initial_sp) = {p}
              /\ nodes'[p].ins = <<initial_sp>>
              /\ \A u \in UsersOf(nodes, initial_sp) :
                    \A i \in 1..Len(nodes[u].ins) :
                        nodes[u].ins[i] = initial_sp => nodes'[u].ins[i] = p
              /\ KeepsBetween(nodes', up'.sched[1], 1, p)
              /\ IF up.sp_relative
                 THEN /\ nodes'[p].op = "IncSP"
                      /\ nodes'[p].imm = up.frame_size
                      /\ \A k \in 1..Len(up.end_block) :
                            EpilogIncSP(nodes', up'.sched, up.end_block[k],
                                        up.frame_size)
                 ELSE /\ nodes'[p].op = "Save" /\ nodes'[p].form = "imm"
                      /\ nodes'[p].imm
                            = 0 - (SPARC_MIN_STACKSIZE + up.frame_size)
                      /\ \A n \in 1..Len(nodes') :
                            nodes'[n].op = "Save" => n = p
                      /\ \A k \in 1..Len(up.end_block) :
                            EpilogRestore(nodes', up'.sched,
                                          up.end_block[k], p)]_vars

\* an sp-relative graph with two Returns has its prolog and epilogs: the
\* IncSP by 8 behind Start and an IncSP by -8 in front of either Return
C29_Witness ==
    /\ scen = "sparc" /\ pc = "sf_fix_stack"
    /\ up.sp_relative /\ up.frame_size = 8
    /\ Len(up.end_block) = 2
    /\ \A k \in 1..2 :
          LET e == nodes[up.end_block[k]].ins[1]
          IN  /\ nodes[e].op = "IncSP" /\ nodes[e].imm = -8
              /\ nodes[nodes[e].ins[1]].op = "IncSP"
              /\ nodes[nodes[e].ins[1]].imm = 8
              /\ nodes[nodes[e].ins[1]].ins = <<initial_sp>>

\* a graph with a frame pointer and a Keep behind Start: the Save is
\* scheduled behind the Keep and the Return takes a RestoreZero of it
C29_FramePointer ==
    /\ scen = "sparc" /\ pc = "sf_fix_stack"
    /\ ~up.sp_relative /\ up.frame_size = 4008
    /\ Len(up.end_block) = 1
    /\ nodes[up.sched[1][2]].op = "Keep"
    /\ nodes[up.sched[1][3]].op = "Save"
    /\ nodes[up.sched[1][3]].imm = -4100
    /\ LET e == nodes[up.end_block[1]].ins[1]
       IN  nodes[e].op = "RestoreZero" /\ nodes[e].ins = <<up.sched[1][3], 3>>

\* a graph without a Return whose Save nothing uses: a Keep holds the Save
C29_KeptSave ==
    /\ scen = "sparc" /\ pc = "sf_fix_stack"
    /\ ~up.sp_relative
    /\ \E p \in 1..Len(nodes), k \in 1..Len(nodes) :
          /\ nodes[p].op = "Save" /\ nodes[k].op = "Keep"
          /\ UsersOf(nodes, p) = {k}
          /\ DirectlyBefore(up.sched, p, k)

(***************************************************************************)
(* C30.  The legalizations of sparc_finish_graph.                          *)
(***************************************************************************)
\* the node has an immediate that the legalizations look at
HandledNode(ns, n) ==
    \/ ns[n].op \in {"Save", "FrameAddr", "IncSP"}
    \/ ns[n].op \in {"Ld", "Ldf", "St", "Stf"} /\ ns[n].fe

Encodeable(v) == -4096 <= v /\ v <= 4095

\* the immediate of the handled node cannot be encoded; an IncSP can be
\* emitted as an add or as a sub
NotEncodeable(ns, n) ==
    IF ns[n].op = "IncSP"
    THEN ~Encodeable(ns[n].imm) /\ ~Encodeable(0 - ns[n].imm)
    ELSE ~Encodeable(ns[n].imm)

\* the low 10 bits of a value and the value without them
LowBits(v) == v - 1024 * (v \div 1024)

\* the value that the node c computes: SetHi sets the bits above the low
\* 10 of its immediate, Or adds the bits of its immediate
ConstantValue(ns, c) ==
    IF ns[c].op = "SetHi" THEN ns[c].imm - LowBits(ns[c].imm)
    ELSE IF ns[c].op = "Or" /\ ns[ns[c].ins[1]].op = "SetHi"
    THEN (ns[ns[c].ins[1]].imm - LowBits(ns[ns[c].ins[1]].imm)) + ns[c].imm
    ELSE 0

\* c is SetHi(offset), or Or(SetHi(offset), offset & 0x3ff) with the Or
\* right behind the SetHi, and the Or is there only if the low 10 bits of
\* the offset are not zero
BuiltFrom(ns, sched, c, offset) ==
    IF LowBits(offset) = 0
    THEN ns[c].op = "SetHi" /\ ns[c].imm = offset
    ELSE /\ ns[c].op = "Or" /\ ns[c].form = "imm"
         /\ ns[c].imm = LowBits(offset)
         /\ ns[ns[c].ins[1]].op = "SetHi"
         /\ ns[ns[c].ins[1]].imm = offset
         /\ DirectlyBefore(sched, ns[c].ins[1], c)

\* the schedule s without the nodes above old, and with n where r is
RECURSIVE OldSchedule(_, _, _, _)
OldSchedule(s, old, r, n) ==
    IF s = <<>> THEN <<>>
    ELSE (IF Head(s) = r THEN <<n>>
          ELSE IF Head(s) > old THEN <<>> ELSE <<Head(s)>>)
         \o OldSchedule(Tail(s), old, r, n)

\* the step replaces the node n by a node in register form in the place
\* of n in the schedule; the operands of the new node are those of n and a
\* constant that is the immediate of n; all new nodes are scheduled, the
\* constant in front of the new node
ReplacedByRegisterForm(n) ==
    LET old == Len(nodes)
        b   == nodes[n].blk
    IN  \E r \in (old + 1)..Len(nodes'), c \in (old + 1)..Len(nodes') :
            /\ nodes'[n].op = "Deleted"
            /\ nodes'[r].form = "reg" /\ nodes'[r].imm = 0
            /\ \A u \in UsersOf(nodes, n) :
                  \A i \in 1..Len(nodes[u].ins) :
                      nodes[u].ins[i] = n => nodes'[u].ins[i] = r
            /\ Range(nodes'[r].ins) = Range(nodes[n].ins) \cup {c}
            /\ Len(nodes'[r].ins) = Len(nodes[n].ins) + 1
            /\ ConstantValue(nodes', c) = nodes[n].imm
            /\ BuiltFrom(nodes', up'.sched, c, nodes[n].imm)
            /\ DirectlyBefore(up'.sched, c, r)
            /\ OldSchedule(up'.sched[b], old, r, n) = up.sched[b]
            /\ \A k \in (old + 1)..Len(nodes') :
                  position(up'.sched[b], k) # 0
            /\ \A k \in 1..Len(up.sched) :
                  k # b => up'.sched[k] = up.sched[k]

\* a step of the walk of the legalizations that visits a handled node of
\* one of the kinds
LegalizeVisits(kinds) ==
    /\ scen = "sparc" /\ pc = "sf_legalize" /\ up.todo # <<>>
    /\ Visited(Head(up.todo))
    /\ HandledNode(nodes, Head(up.todo))
    /\ nodes[Head(up.todo)].op \in kinds

\* the phases of sparc_finish_graph follow each other: prolog and epilogs,
\* the stack offsets, the peephole walk till its end, the legalizations
PhasesInOrder ==
    /\ pc' = "sf_fix_stack" => pc = "sf_epilog"
    /\ pc' = "sf_peephole" => pc \in {"sf_fix_stack", "sf_peephole"}
    /\ pc' = "sf_legalize" =>
          \/ pc = "sf_legalize"
          \/ pc = "sf_peephole" /\ up.todo = <<>>
    /\ (\E n \in 1..Len(nodes') :
           n > Len(nodes) /\ nodes'[n].op \in {"SetHi", "Or"})
          => pc = "sf_legalize" /\ UsersOf(nodes, initial_sp) # {}

\* no scheduled node that the legalizations handle has an immediate that
\* cannot be encoded
AllEncodeable(ns, sched) ==
    \A n \in 1..Len(ns) :
        (/\ ns[n].op # "Deleted"
         /\ position(sched[ns[n].blk], n) # 0
         /\ HandledNode(ns, n)) => ~NotEncodeable(ns, n)

\* what the claim says of the handled nodes of the given kinds
Legalized(kinds) ==
    /\ scen = "sparc" => PhasesInOrder
    /\ (scen = "sparc" /\ pc' = "sf_done") =>
          AllEncodeable(nodes', up'.sched)
    /\ LegalizeVisits(kinds) =>
          IF NotEncodeable(nodes, Head(up.todo))
          THEN ReplacedByRegisterForm(Head(up.todo))
          ELSE nodes' = nodes /\ up'.sched = up.sched

\* C30: the legalizations run after the prolog and the epilogs are in and
\* the peephole walk is through; when sparc_finish_graph returns, no
\* scheduled Save, FrameAddr, IncSP or frame-entity Ld, Ldf, St or Stf has
\* an immediate that cannot be encoded; a step of the walk replaces such a
\* node that has one by a node in register form in the same place of the
\* schedule, with one more operand that is a scheduled constant equal to
\* the immediate, SetHi(offset) and then Or(offset & 0x3ff) only if these
\* bits are not zero; it leaves a node with an encodeable immediate as it
\* is.
C30_Legalized ==
    [][Legalized({"Save", "FrameAddr", "IncSP", "Ld", "Ldf", "St", "Stf"})
      ]_vars

\* the same without the Ldf and the Stf: it holds of the integer loads
\* and stores, the Save, the FrameAddr and the IncSP
C30_LegalizedButFloat ==
    [][Legalized({"Save", "FrameAddr", "IncSP", "Ld", "St"})]_vars

\* sparc_finish_graph has returned from a graph whose Ldf had the offset
\* 4096: a new Ldf with the immediate 0 is scheduled, not in register
\* form, and its pointer is an Add that is in no schedule
C30_Witness ==
    /\ scen = "sparc" /\ pc = "sf_done"
    /\ \E l \in 1..Len(nodes) :
          /\ nodes[l].op = "Ldf" /\ nodes[l].form = "imm"
          /\ nodes[l].imm = 0 /\ nodes[l].fe
          /\ position(up.sched[nodes[l].blk], l) # 0
          /\ LET a == nodes[l].ins[1]
             IN  /\ nodes[a].op = "Add" /\ nodes[a].form = "reg"
                 /\ position(up.sched[nodes[a].blk], a) = 0
                 /\ nodes[nodes[a].ins[2]].op = "SetHi"
                 /\ nodes[nodes[a].ins[2]].imm = 4096

\* the Save of a frame of 5028 bytes was replaced by a Save in register
\* form whose constant is a SetHi alone
C30_SaveBySetHi ==
    /\ scen = "sparc" /\ pc = "sf_done"
    /\ up.frame_size = 5028
    /\ \E s \in 1..Len(nodes) :
          /\ nodes[s].op = "Save" /\ nodes[s].form = "reg"
          /\ nodes[nodes[s].ins[2]].op = "SetHi"
          /\ nodes[nodes[s].ins[2]].imm = -5120

\* a St with the offset -4097 was replaced by a St in register form whose
\* constant is an Or of a SetHi
C30_StoreByOr ==
    /\ scen = "sparc" /\ pc = "sf_done"
    /\ \E s \in 1..Len(nodes) :
          /\ nodes[s].op = "St" /\ nodes[s].form = "reg"
          /\ nodes[nodes[s].ins[3]].op = "Or"
          /\ nodes[nodes[s].ins[3]].imm = 1023
          /\ ConstantValue(nodes, nodes[s].ins[3]) = -4097

=============================================================================
